---- MODULE Spec2Model ----
(***************************************************************************)
(* Model of radio-station-db: the FCC pipe-delimited record parser          *)
(* (src/src/fcc_parser.py) and its batch drivers.                           *)
(*                                                                          *)
(* Text is modelled as a sequence of one-character strings, so that         *)
(* split, strip, substring search and the numeric pattern match are         *)
(* computed character by character as the code computes them.               *)
(*                                                                          *)
(* Numbers.  A Python float is modelled by an exact fixed-point integer:    *)
(*   - a numeric token "d+(.d+)?" is held in thousandths (milli-units);     *)
(*   - a frequency in MHz is held in Hz (MHz * 10^6);                       *)
(*   - a power in watts is held in watts (kW * 1000);                       *)
(*   - an angle in degrees is held in milli-arcseconds (deg * 3600000).     *)
(* The input texts carry at most three fractional digits, so every value    *)
(* the code computes is a multiple of the unit and the IEEE comparisons     *)
(* of the code agree with the exact ones (division and literal parsing are  *)
(* correctly rounded, and distinct values differ by far more than an ulp).  *)
(* The one float that is not a real number, NaN, is modelled explicitly.    *)
(***************************************************************************)
EXTENDS Integers, Sequences, FiniteSets, TLC

(***************************************************************************)
(* Text primitives (Python str methods and the re module).                  *)
(***************************************************************************)

Digits == <<"0", "1", "2", "3", "4", "5", "6", "7", "8", "9">>

IsDigit(c) == \E i \in 1..10 : Digits[i] = c

DigitVal(c) == (CHOOSE i \in 1..10 : Digits[i] = c) - 1

\* str.isspace for the characters of the input alphabet
IsSpace(c) == c = " "

RECURSIVE LStrip(_)
LStrip(s) ==
    IF s # <<>> /\ IsSpace(Head(s)) THEN LStrip(Tail(s)) ELSE s

RECURSIVE RStrip(_)
RStrip(s) ==
    IF s # <<>> /\ IsSpace(s[Len(s)]) THEN RStrip(SubSeq(s, 1, Len(s) - 1)) ELSE s

\* str.strip()
Strip(s) == RStrip(LStrip(s))

\* sub in s
Contains(s, sub) ==
    \E i \in 1..(Len(s) - Len(sub) + 1) : SubSeq(s, i, i + Len(sub) - 1) = sub

\* the first position at or after i that holds sep, or Len(s) + 1
RECURSIVE FieldEnd(_, _, _)
FieldEnd(s, sep, i) ==
    IF i > Len(s) \/ s[i] = sep THEN i ELSE FieldEnd(s, sep, i + 1)

\* s.split(sep) for a one-character separator, from position i on: one field
\* more than there are separators
RECURSIVE SplitFrom(_, _, _)
SplitFrom(s, sep, i) ==
    LET j == FieldEnd(s, sep, i)
    IN  IF j > Len(s) THEN <<SubSeq(s, i, Len(s))>>
        ELSE <<SubSeq(s, i, j - 1)>> \o SplitFrom(s, sep, j + 1)

Split(s, sep) == SplitFrom(s, sep, 1)

\* sep.join(parts): used to build input lines
RECURSIVE Join(_, _)
Join(parts, sep) ==
    IF parts = <<>> THEN <<>>
    ELSE IF Len(parts) = 1 THEN parts[1]
    ELSE parts[1] \o <<sep>> \o Join(Tail(parts), sep)

\* length of the maximal run of digits of s starting at position i
RECURSIVE DigitRun(_, _)
DigitRun(s, i) ==
    IF i <= Len(s) /\ IsDigit(s[i]) THEN 1 + DigitRun(s, i + 1) ELSE 0

\* value of a digit string
RECURSIVE DigitsValue(_)
DigitsValue(d) ==
    IF d = <<>> THEN 0 ELSE 10 * DigitsValue(SubSeq(d, 1, Len(d) - 1)) + DigitVal(d[Len(d)])

\* a fraction digit string in thousandths (digits past the third are dropped;
\* the input texts have at most three)
FracMilli(d) ==
    LET p == SubSeq(d, 1, IF Len(d) < 3 THEN Len(d) ELSE 3)
    IN  IF Len(p) = 0 THEN 0
        ELSE IF Len(p) = 1 THEN 100 * DigitsValue(p)
        ELSE IF Len(p) = 2 THEN 10 * DigitsValue(p)
        ELSE DigitsValue(p)

\* re.search(r'(\d+(?:\.\d+)?)', s) followed by float(match.group(1)):
\* <<>> when there is no match, else <<value in thousandths>>
SearchNumber(s) ==
    LET starts == {i \in 1..Len(s) : IsDigit(s[i])}
    IN  IF starts = {} THEN <<>>
        ELSE LET i  == CHOOSE j \in starts : \A k \in starts : j <= k
                 n  == DigitRun(s, i)
                 e  == i + n
                 fn == IF e <= Len(s) /\ s[e] = "." THEN DigitRun(s, e + 1) ELSE 0
             IN  <<1000 * DigitsValue(SubSeq(s, i, e - 1))
                   + FracMilli(SubSeq(s, e + 1, e + fn))>>

\* int(s) for a stripped text: <<>> on ValueError, else <<value>>
IntParse(s) ==
    LET body == IF s # <<>> /\ s[1] \in {"-", "+"} THEN Tail(s) ELSE s
        sign == IF s # <<>> /\ s[1] = "-" THEN -1 ELSE 1
    IN  IF body # <<>> /\ DigitRun(body, 1) = Len(body)
        THEN <<sign * DigitsValue(body)>>
        ELSE <<>>

\* A float that may be NaN: value in thousandths
NaN == [nan |-> TRUE, v |-> 0]

Num(x) == [nan |-> FALSE, v |-> x]

\* float(s) for a stripped text: <<>> on ValueError, else <<float>>
FloatParse(s) ==
    LET body   == IF s # <<>> /\ s[1] \in {"-", "+"} THEN Tail(s) ELSE s
        sign   == IF s # <<>> /\ s[1] = "-" THEN -1 ELSE 1
        n      == DigitRun(body, 1)
        hasDot == n < Len(body) /\ body[n + 1] = "."
        fn     == IF hasDot THEN DigitRun(body, n + 2) ELSE 0
        total  == IF hasDot THEN n + 1 + fn ELSE n
    IN  IF body = <<"n", "a", "n">> THEN <<NaN>>
        ELSE IF n + fn > 0 /\ total = Len(body)
        THEN <<Num(sign * (1000 * DigitsValue(SubSeq(body, 1, n))
                           + FracMilli(SubSeq(body, n + 2, n + 1 + fn))))>>
        ELSE <<>>

(***************************************************************************)
(* State.                                                                   *)
(***************************************************************************)
VARIABLES
    nan_passes,   \* whether the installed pydantic lets a NaN through ge/le
    pc,           \* fetch_*_stations: "idle", "fetching", "loop", "done", "raised"
    service,      \* which driver runs: FM (fetch_fm_stations) or AM
    lines,        \* response.text.strip().split('\n')
    line_num,     \* enumerate(lines, 1): the next line to parse
    stations,     \* the list being built, returned at "done"
    error_log,    \* line numbers printed by the driver's except clause
    p_service,    \* single-line parse: which parser is called
    p_line,       \* single-line parse: the raw line
    p_out,        \* single-line parse: <<>> before the call, <<outcome>> after
    f_str,        \* _parse_frequency alone: its argument
    f_out,        \* _parse_frequency alone: <<>> before the call, <<result>> after
    gf_line,      \* _get_field alone: the raw line that is split
    gf_name,      \* _get_field alone: field_name
    gf_out,       \* _get_field alone: <<>> before the call, <<result>> after
    caller,       \* who calls detect_genre: "cli" (detect_genres) or "batch"
    g_pc,         \* position in the caller and in detect_genre
    g_stations,   \* the stations to process, as their call signs
    g_i,          \* index of the station the loop is at
    attempt,      \* detect_genre: the for loop's attempt
    genre,        \* detect_genre: the value returned for station g_i
    quota_exceeded, \* GenreDetector.quota_exceeded
    api_requests, \* generate_content calls issued by the instance
    call_requests, \* generate_content calls issued by the current detect_genre
    last_response, \* what the last generate_content call did
    db_genre,     \* the connection's view of stations.genre, by call sign
    db_committed, \* the committed content of stations.genre, by call sign
    updated_count, \* detect_genres: updated_count
    results,      \* detect_genres_batch: the results dict, as a sequence
    console,      \* detect_genres: what the loop printed for each station
    s_pc,         \* _store_stations: "idle", "loop", "done"
    s_stations,   \* _store_stations: the records to store
    s_i,          \* _store_stations: index of the next record
    s_attempted,  \* _store_stations: per record handled, whether the insert held
    s_rows,       \* the connection's view of the stations table
    s_committed,  \* the committed content of the stations table
    c_pc,         \* the fetch command: its position
    c_service,    \* the fetch command: --service, "fm", "am" or "both"
    c_limit,      \* the fetch command: --limit, 0 when it is not given
    all_stations  \* the fetch command: all_stations

batch_vars == <<pc, service, lines, line_num, stations, error_log>>

line_vars == <<p_service, p_line, p_out>>

freq_vars == <<f_str, f_out>>

field_vars == <<gf_line, gf_name, gf_out>>

genre_vars == <<caller, g_pc, g_stations, g_i, attempt, genre, quota_exceeded,
                api_requests, call_requests, last_response, db_genre,
                db_committed, updated_count, results, console>>

store_vars == <<s_pc, s_stations, s_i, s_attempted, s_rows, s_committed>>

cmd_vars == <<c_pc, c_service, c_limit, all_stations>>

vars == <<nan_passes, batch_vars, line_vars, freq_vars, field_vars, genre_vars,
          store_vars, cmd_vars>>

(***************************************************************************)
(* RadioStation: the validated record.                                      *)
(***************************************************************************)
FM == <<"F", "M">>

AM == <<"A", "M">>

\* None and a present value of an Optional
None == <<>>

Some(x) == <<x>>

\* the frequency plausibility bounds of validate_frequency, in Hz
FreqMin == 530000

FreqMax == 107900000

\* Field(None, ge=lo, le=hi) on an Optional[float] holding f (degrees given,
\* f in milli-arcseconds): pydantic rejects f < lo and f > hi; whether a NaN,
\* for which both comparisons are false, is rejected depends on the build.
OptFloatInRange(opt, lo, hi) ==
    \/ opt = None
    \/ /\ opt # None
       /\ IF opt[1].nan THEN nan_passes
          ELSE lo * 3600000 <= opt[1].v /\ opt[1].v <= hi * 3600000

\* a variant of ValidFrequency that splits the range into the AM and FM bands
ValidFrequencyBandSplit(f) ==
    \/ 530000 <= f /\ f <= 1700000
    \/ 88100000 <= f /\ f <= 107900000

\* validate_frequency together with Field(gt=0)
ValidFrequency(f) == f > 0 /\ FreqMin <= f /\ f <= FreqMax

\* a variant of ValidCallSign that rejects the placeholder "-"
ValidCallSignNoPlaceholder(cs) == Strip(cs) # <<>> /\ Strip(cs) # <<"-">>


\* validate_call_sign, after str_strip_whitespace
ValidCallSign(cs) == Strip(cs) # <<>>

\* a variant of RadioStationValid without max_length on the state
RadioStationValidAnyState(kw) ==
    /\ ValidCallSign(kw.call_sign)
    /\ ValidFrequency(kw.frequency)
    /\ kw.service_type \in {FM, AM}
    /\ OptFloatInRange(kw.latitude, -90, 90)
    /\ OptFloatInRange(kw.longitude, -180, 180)
    /\ (kw.power_watts = None \/ kw.power_watts[1] >= 0)


\* RadioStation(**kw): TRUE when construction succeeds, FALSE when it raises
\* ValidationError
RadioStationValid(kw) ==
    /\ ValidCallSign(kw.call_sign)
    /\ ValidFrequency(kw.frequency)
    /\ kw.service_type \in {FM, AM}
    /\ Len(Strip(kw.state)) <= 2
    /\ OptFloatInRange(kw.latitude, -90, 90)
    /\ OptFloatInRange(kw.longitude, -180, 180)
    /\ (kw.power_watts = None \/ kw.power_watts[1] >= 0)

\* the record as constructed: string fields stripped
RadioStation(kw) ==
    [kw EXCEPT !.call_sign = Strip(@), !.city = Strip(@), !.state = Strip(@),
               !.licensee = Strip(@), !.facility_id = Strip(@), !.status = Strip(@)]

(***************************************************************************)
(* FCCDataFetcher: field mappings and sub-parsers.                          *)
(***************************************************************************)
FM_FIELDS ==
    [call_sign |-> 1, frequency |-> 2, service_type |-> 3, status |-> 9,
     city |-> 10, state |-> 11, country |-> 12, facility_id |-> 13, power |-> 14,
     lat_direction |-> 19, lat_degrees |-> 20, lat_minutes |-> 21,
     lat_seconds |-> 22, lon_direction |-> 23, lon_degrees |-> 24,
     lon_minutes |-> 25, lon_seconds |-> 26]

AM_FIELDS ==
    [call_sign |-> 1, frequency |-> 2, service_type |-> 3, status |-> 9,
     city |-> 10, state |-> 11, country |-> 12, facility_id |-> 13, power |-> 14,
     lat_direction |-> 19, lat_degrees |-> 20, lat_minutes |-> 21,
     lat_seconds |-> 22, lon_direction |-> 23, lon_degrees |-> 24,
     lon_minutes |-> 25, lon_seconds |-> 26]

\* max(field_map.values())
MaxIndex(field_map) ==
    CHOOSE m \in {field_map[k] : k \in DOMAIN field_map} :
        \A k \in DOMAIN field_map : field_map[k] <= m

\* a variant of GetField that takes the mapping to be 1-based
GetFieldOneBased(fields, field_map, field_name) ==
    IF field_name \notin DOMAIN field_map \/ field_map[field_name] > Len(fields)
    THEN <<>>
    ELSE Strip(fields[field_map[field_name]])

\* a variant of GetField that returns the slot as it is
GetFieldUntrimmed(fields, field_map, field_name) ==
    IF field_name \notin DOMAIN field_map \/ field_map[field_name] >= Len(fields)
    THEN <<>>
    ELSE fields[field_map[field_name] + 1]


\* _get_field: fields is the 0-based Python list, held 1-based
GetField(fields, field_map, field_name) ==
    IF field_name \notin DOMAIN field_map \/ field_map[field_name] >= Len(fields)
    THEN <<>>
    ELSE Strip(fields[field_map[field_name] + 1])

\* a variant of ParseFrequency that converts on the unit marker alone
ParseFrequencyMarkerOnly(freq_str) ==
    LET m == SearchNumber(freq_str)
    IN  IF freq_str = <<>> THEN None
        ELSE IF m = <<>> THEN None
        ELSE IF Contains(freq_str, <<"k", "H", "z">>)
        THEN Some(m[1])
        ELSE Some(m[1] * 1000)

\* a variant of ParseFrequency that divides a kHz figure by 100.0
ParseFrequencyDivideBy100(freq_str) ==
    LET m == SearchNumber(freq_str)
    IN  IF freq_str = <<>> THEN None
        ELSE IF m = <<>> THEN None
        ELSE IF Contains(freq_str, <<"k", "H", "z">>) \/ m[1] < 30 * 1000
        THEN Some(m[1] * 10)
        ELSE Some(m[1] * 1000)

\* _parse_frequency: None, or the frequency in Hz (MHz * 10^6)
ParseFrequency(freq_str) ==
    LET m == SearchNumber(freq_str)
    IN  IF freq_str = <<>> THEN None
        ELSE IF m = <<>> THEN None
        ELSE IF Contains(freq_str, <<"k", "H", "z">>) \/ m[1] < 30 * 1000
        THEN Some(m[1])           \* freq / 1000.0
        ELSE Some(m[1] * 1000)    \* freq unchanged

\* a variant of ParsePower that returns the kilowatts
ParsePowerKilowatts(power_str) ==
    LET m == SearchNumber(power_str)
    IN  IF power_str = <<>> \/ power_str = <<"-">> THEN None
        ELSE IF m = <<>> THEN None
        ELSE Some(m[1] \div 1000)


\* _parse_power: None, or the power in watts
ParsePower(power_str) ==
    LET m == SearchNumber(power_str)
    IN  IF power_str = <<>> \/ power_str = <<"-">> THEN None
        ELSE IF m = <<>> THEN None
        ELSE Some(m[1])           \* power_kw * 1000

\* a variant of FindLicenseeField that takes a text of 10 characters as well
FindLicenseeFieldAtLeast10(fields) ==
    LET hi   == IF Len(fields) < 35 THEN Len(fields) ELSE 35
        hits == {i \in 25..(hi - 1) : Len(Strip(fields[i + 1])) >= 10}
    IN  IF hits = {} THEN <<>>
        ELSE Strip(fields[(CHOOSE i \in hits : \A j \in hits : i <= j) + 1])


\* _find_licensee_field
FindLicenseeField(fields) ==
    LET hi   == IF Len(fields) < 35 THEN Len(fields) ELSE 35
        hits == {i \in 25..(hi - 1) : Len(Strip(fields[i + 1])) > 10}
    IN  IF hits = {} THEN <<>>
        ELSE Strip(fields[(CHOOSE i \in hits : \A j \in hits : i <= j) + 1])

\* a variant of IntOrZero without the default for an empty text
IntOrZeroNoDefault(s) == IntParse(s)


\* int(s) if s else 0, and float(s) if s else 0
IntOrZero(s) == IF s = <<>> THEN Some(0) ELSE IntParse(s)

FloatOrZero(s) == IF s = <<>> THEN Some(Num(0)) ELSE FloatParse(s)

\* deg + min/60 + sec/3600, in milli-arcseconds; NaN when the seconds are NaN
Decimal(deg, min, sec) ==
    IF sec.nan THEN NaN ELSE Num(deg * 3600000 + min * 60000 + sec.v)

\* a variant of Neg that leaves the sign alone
NegOmitted(f) == f


Neg(f) == IF f.nan THEN NaN ELSE Num(-f.v)

\* IEEE comparisons: false whenever an operand is NaN
Lt(f, degrees) == ~f.nan /\ f.v < degrees * 3600000

Gt(f, degrees) == ~f.nan /\ f.v > degrees * 3600000

\* a variant of OutsideBox that joins the four tests with "and"
OutsideBoxConjunctive(lat, lon) ==
    Lt(lat, 18) /\ Gt(lat, 72) /\ Lt(lon, -180) /\ Gt(lon, -60)

\* the plausibility test: lat < 18 or lat > 72 or lon < -180 or lon > -60
OutsideBox(lat, lon) ==
    Lt(lat, 18) \/ Gt(lat, 72) \/ Lt(lon, -180) \/ Gt(lon, -60)

\* _parse_coordinates: <<latitude, longitude>>, each None or Some(float)
ParseCoordinates(fields, field_map) ==
    LET lat_deg == IntOrZero(GetField(fields, field_map, "lat_degrees"))
        lat_min == IntOrZero(GetField(fields, field_map, "lat_minutes"))
        lat_sec == FloatOrZero(GetField(fields, field_map, "lat_seconds"))
        lon_deg == IntOrZero(GetField(fields, field_map, "lon_degrees"))
        lon_min == IntOrZero(GetField(fields, field_map, "lon_minutes"))
        lon_sec == FloatOrZero(GetField(fields, field_map, "lon_seconds"))
    IN  IF \/ lat_deg = <<>> \/ lat_min = <<>> \/ lat_sec = <<>>
           \/ lon_deg = <<>> \/ lon_min = <<>> \/ lon_sec = <<>>
        THEN <<None, None>>       \* except (ValueError, IndexError)
        ELSE LET lat == Decimal(lat_deg[1], lat_min[1], lat_sec[1])
                 lon == Neg(Decimal(lon_deg[1], lon_min[1], lon_sec[1]))
             IN  IF OutsideBox(lat, lon)
                 THEN <<None, None>>
                 ELSE <<Some(lat), Some(lon)>>

(***************************************************************************)
(* _parse_fm_line / _parse_am_line.  An outcome records how the call ended: *)
(*   kind      "record" (a RadioStation is returned), "none" (None is       *)
(*             returned) or "raise" (ValidationError leaves the call);      *)
(*   station   <<>> or <<the record>>;                                      *)
(*   extracted whether _get_field was called at all.                        *)
(* The except clause inside the parser is not modelled: no call in its try  *)
(* block raises on the input alphabet.                                      *)
(***************************************************************************)
Outcome(kind, station, extracted) ==
    [kind |-> kind, station |-> station, extracted |-> extracted]

\* a variant of TooShort that compares with the number of mapped fields
TooShortByFieldCount(fields, field_map) ==
    Len(fields) < Cardinality(DOMAIN field_map)

\* the pre-check: len(fields) < max(field_map.values())
TooShort(fields, field_map) == Len(fields) < MaxIndex(field_map)

\* the body shared, statement for statement, by the two parsers
ParseFields(fields, field_map, service_type) ==
    LET call_sign == GetField(fields, field_map, "call_sign")
        frequency == ParseFrequency(GetField(fields, field_map, "frequency"))
        coords    == ParseCoordinates(fields, field_map)
        kw == [call_sign    |-> call_sign,
               frequency    |-> frequency[1],
               service_type |-> service_type,
               city         |-> GetField(fields, field_map, "city"),
               state        |-> GetField(fields, field_map, "state"),
               latitude     |-> coords[1],
               longitude    |-> coords[2],
               power_watts  |-> ParsePower(GetField(fields, field_map, "power")),
               licensee     |-> FindLicenseeField(fields),
               facility_id  |-> GetField(fields, field_map, "facility_id"),
               status       |-> GetField(fields, field_map, "status")]
    IN  IF TooShort(fields, field_map) THEN Outcome("none", <<>>, FALSE)
        ELSE IF call_sign = <<>> THEN Outcome("none", <<>>, TRUE)
        ELSE IF frequency = None \/ frequency[1] = 0 THEN Outcome("none", <<>>, TRUE)
        ELSE IF ~RadioStationValid(kw) THEN Outcome("raise", <<>>, TRUE)
        ELSE Outcome("record", <<RadioStation(kw)>>, TRUE)

\* a variant of ParseFMLine that takes the service type from the line
ParseFMLineColumnService(line) ==
    ParseFields(Split(line, "|"), FM_FIELDS,
                GetField(Split(line, "|"), FM_FIELDS, "service_type"))

ParseFMLine(line) == ParseFields(Split(line, "|"), FM_FIELDS, FM)

ParseAMLine(line) == ParseFields(Split(line, "|"), AM_FIELDS, AM)

ParseLine(svc, line) == IF svc = FM THEN ParseFMLine(line) ELSE ParseAMLine(line)

(***************************************************************************)
(* Inputs: field texts, lines and batches.                                  *)
(***************************************************************************)

\* call sign column
CallSignTexts == {<<>>, <<"-">>, <<" ", "K", "Q", "E", "D", " ">>}

\* frequency column
FreqTexts ==
    {<<>>, <<"M", "H", "z">>, <<"0", " ", "M", "H", "z">>,
     <<"8", "8", ".", "1", " ", " ", "M", "H", "z">>, <<"8", "8", ".", "5", " ", " ", "M", "H", "z">>, <<"1", "0", "7", ".", "9", " ", " ", "M", "H", "z">>, <<"1", "0", "8", ".", "0", " ", " ", "M", "H", "z">>, <<"8", "8", ".", "5", " ", "k", "H", "z">>,
     <<"5", "0", ".", "0", " ", " ", "M", "H", "z">>,
     <<"2", "9", ".", "9", " ", " ", "M", "H", "z">>, <<"5", "4", "0">>, <<"5", "2", "9", " ", " ", " ", "k", "H", "z">>, <<"5", "3", "0", " ", " ", " ", "k", "H", "z">>, <<"5", "4", "0", " ", " ", " ", "k", "H", "z">>,
     <<"1", "7", "0", "0", " ", " ", " ", "k", "H", "z">>, <<"1", "0", "7", "9", "0", "0", " ", "k", "H", "z">>, <<"1", "0", "7", "9", "0", "1", " ", "k", "H", "z">>}

\* state column
StateTexts == {<<"C", "A">>, <<"C", "A", "L">>, <<>>}

\* <<service_type column, power column>>
MiscTexts ==
    {<<<<"F", "M">>, <<"2", ".", "5", " ", " ", " ", "k", "W">>>>, <<<<"A", "M">>, <<"-">>>>, <<<<"A", "M">>, <<"k", "W">>>>, <<<<"F", "M">>, <<>>>>}

\* <<lat_degrees, lat_minutes, lat_seconds, lon_degrees, lon_minutes, lon_seconds>>
CoordTexts ==
    {<<<<"3", "7">>, <<"4", "5">>, <<"1", "9", ".", "0">>, <<"1", "2", "2">>, <<"2", "7">>, <<"6", ".", "0">>>>,
     <<<<"4", "0">>, <<"3", "0">>, <<"0">>, <<"7", "4">>, <<"0">>, <<"0">>>>,
     <<<<"1", "8">>, <<"0">>, <<"0">>, <<"6", "0">>, <<>>, <<>>>>,
     <<<<"7", "2">>, <<>>, <<>>, <<"1", "8", "0">>, <<"0">>, <<"0", ".", "0">>>>,
     <<<<"1", "0">>, <<"0">>, <<"0">>, <<"1", "2", "2">>, <<"2", "7">>, <<"6", ".", "0">>>>,
     <<<<"1", "7">>, <<"5", "9">>, <<"5", "9", ".", "9", "9", "9">>, <<"1", "2", "2">>, <<"2", "7">>, <<"6", ".", "0">>>>,
     <<<<"7", "2">>, <<"0">>, <<"0", ".", "0", "0", "1">>, <<"1", "2", "2">>, <<"2", "7">>, <<"6", ".", "0">>>>,
     <<<<"3", "7">>, <<"4", "5">>, <<"1", "9", ".", "0">>, <<"5", "9">>, <<"5", "9">>, <<"5", "9", ".", "9", "9", "9">>>>,
     <<<<"3", "7">>, <<"4", "5">>, <<"1", "9", ".", "0">>, <<"1", "8", "0">>, <<"0">>, <<"0", ".", "0", "0", "1">>>>,
     <<<<>>, <<>>, <<>>, <<>>, <<>>, <<>>>>,
     <<<<"3", "7">>, <<"4", "5">>, <<"n", "a", "n">>, <<"1", "2", "2">>, <<"2", "7">>, <<"6", ".", "0">>>>,
     <<<<"3", "7">>, <<"4", "5">>, <<"1", "9", ".", "0">>, <<"1", "2", "2">>, <<"2", "7">>, <<"n", "a", "n">>>>,
     <<<<"N", "3", "7">>, <<"4", "5">>, <<"1", "9", ".", "0">>, <<"1", "2", "2">>, <<"2", "7">>, <<"6", ".", "0">>>>,
     <<<<"3", "7">>, <<"4", "5">>, <<"1", "9", ".", "0">>, <<"1", "2", "2">>, <<"2", "7", ".", "5">>, <<"6", ".", "0">>>>,
     <<<<"3", "7">>, <<"4", "x">>, <<"1", "9", ".", "0">>, <<"1", "2", "2">>, <<"2", "7">>, <<"6", ".", "0">>>>,
     <<<<"3", "7">>, <<"4", "5">>, <<"1", "9", ".", "0", "N">>, <<"1", "2", "2">>, <<"2", "7">>, <<"6", ".", "0">>>>}

\* the columns of a full line, by 0-based index; dirs are the latitude and
\* longitude direction columns
FullFieldsDir(cs, fr, st, misc, co, dirs) ==
    <<<<>>, cs, fr, misc[1], <<>>, <<>>, <<>>, <<>>, <<>>,
      <<"L", "I", "C">>, <<"S", "A", "N", " ", "F", "R", "A", "N", "C", "I", "S", "C", "O">>, st, <<"U", "S">>, <<"1", "2", "3", "4", "5">>, misc[2],
      <<>>, <<>>, <<>>, <<>>,
      dirs[1], co[1], co[2], co[3], dirs[2], co[4], co[5], co[6],
      <<"K", "Q", "E", "D", " ", "I", "N", "C", ".", " ", "R", "A", "D", "I", "O">>, <<>>>>

FullFields(cs, fr, st, misc, co) == FullFieldsDir(cs, fr, st, misc, co, <<<<"N">>, <<"W">>>>)

\* a line cut to its first n columns
MkLine(n, cs, fr, st, misc, co) ==
    Join(SubSeq(FullFields(cs, fr, st, misc, co), 1, n), "|")

\* column counts: below the pre-check, exactly at it (the last mapped column,
\* index 26, is missing), and a full line
FieldCounts == {25, 26, 29}

\* coordinates in San Francisco
GoodCoords == <<<<"3", "7">>, <<"4", "5">>, <<"1", "9", ".", "0">>, <<"1", "2", "2">>, <<"2", "7">>, <<"6", ".", "0">>>>

\* lines that vary the frequency column against a few coordinates
FrequencyLines ==
    {MkLine(n, cs, fr, st, misc, co) :
        n \in FieldCounts, cs \in CallSignTexts, fr \in FreqTexts,
        st \in StateTexts, misc \in MiscTexts,
        co \in {<<<<"3", "7">>, <<"4", "5">>, <<"1", "9", ".", "0">>, <<"1", "2", "2">>, <<"2", "7">>, <<"6", ".", "0">>>>,
                <<<<>>, <<>>, <<>>, <<>>, <<>>, <<>>>>,
                <<<<"3", "7">>, <<"4", "5">>, <<"n", "a", "n">>, <<"1", "2", "2">>, <<"2", "7">>, <<"6", ".", "0">>>>}}

\* lines that vary the coordinate columns against a few frequencies
CoordinateLines ==
    {MkLine(n, cs, fr, st, misc, co) :
        n \in FieldCounts, cs \in CallSignTexts,
        fr \in {<<"8", "8", ".", "5", " ", " ", "M", "H", "z">>, <<"5", "4", "0", " ", " ", " ", "k", "H", "z">>, <<"1", "0", "8", ".", "0", " ", " ", "M", "H", "z">>},
        st \in StateTexts, misc \in MiscTexts, co \in CoordTexts}

\* lines that vary the two direction columns
DirectionTexts == {<<"N">>, <<"S">>, <<"W">>, <<"E">>, <<>>}

DirectionLines ==
    {Join(FullFieldsDir(<<"K", "Q", "E", "D">>, <<"8", "8", ".", "5", " ", " ", "M", "H", "z">>, <<"C", "A">>, <<<<"F", "M">>, <<"2", ".", "5", " ", " ", " ", "k", "W">>>>, co, <<d1, d2>>), "|") :
        d1 \in DirectionTexts, d2 \in DirectionTexts,
        co \in {<<<<"4", "0">>, <<"3", "0">>, <<"0">>, <<"7", "4">>, <<"0">>, <<"0">>>>,
                <<<<"3", "7">>, <<"4", "5">>, <<"1", "9", ".", "0">>, <<"1", "2", "2">>, <<"2", "7">>, <<"6", ".", "0">>>>,
                <<<<"1", "8">>, <<"0">>, <<"0">>, <<"6", "0">>, <<>>, <<>>>>}}

\* power column
PowerTexts ==
    {<<"2", ".", "5", " ", " ", " ", "k", "W">>,
     <<"-">>,
     <<" ", "-", " ">>,
     <<>>,
     <<"k", "W">>,
     <<"0", ".", "0", "0", "1", " ", "k", "W">>,
     <<"5", "0", ".", "0", " ", " ", " ", "k", "W">>,
     <<"1", ".", "0", " ", "k", "W", " ", "E", "R", "P", " ", "2", ".", "0">>,
     <<"-", "5", " ", "k", "W">>,
     <<"0", " ", "k", "W">>}

\* lines that vary the power column
PowerLines ==
    {MkLine(29, <<"K", "Q", "E", "D">>, fr, <<"C", "A">>, <<<<"F", "M">>, pw>>, GoodCoords) :
        fr \in {<<"8", "8", ".", "5", " ", " ", "M", "H", "z">>, <<"5", "4", "0", " ", " ", " ", "k", "H", "z">>}, pw \in PowerTexts}

\* lines that vary the call sign column, blanks included
CallSignLines ==
    {MkLine(n, cs, <<"8", "8", ".", "5", " ", " ", "M", "H", "z">>, <<"C", "A">>, <<<<"F", "M">>, <<"2", ".", "5", " ", " ", " ", "k", "W">>>>, GoodCoords) :
        n \in {26, 29},
        cs \in {<<>>, <<" ", " ", " ">>, <<"-">>, <<" ", "-", " ">>, <<"K", "Q", "E", "D">>}}

\* the columns after index 26 of lines that vary the licensee's place
LicenseeTails ==
    {<<<<"S", "H", "O", "R", "T">>, <<"A", " ", "L", "O", "N", "G", "E", "R", " ", "L", "I", "C", "E", "N", "S", "E", "E">>, <<"A", "N", "O", "T", "H", "E", "R", " ", "L", "O", "N", "G", " ", "O", "N", "E">>>>,
     <<<<"T", "E", "N", "C", "H", "A", "R", "S", "1", "0">>>>,
     <<<<"E", "L", "E", "V", "E", "N", "C", "H", "A", "R", "S">>>>,
     <<<<" ", " ", " ", "P", "A", "D", "D", "E", "D", " ", " ", " ", " ", " ">>>>,
     <<<<" ", " ", "E", "L", "E", "V", "E", "N", "C", "H", "A", "R", "S", " ", " ">>>>,
     <<>>,
     <<<<>>, <<>>, <<>>, <<>>, <<>>, <<>>, <<>>, <<>>, <<"T", "O", "O", " ", "F", "A", "R", " ", "T", "O", " ", "B", "E", " ", "S", "E", "E", "N">>>>,
     <<<<>>, <<>>, <<>>, <<>>, <<>>, <<>>, <<>>, <<"L", "A", "S", "T", " ", "S", "L", "O", "T", " ", "S", "E", "E", "N", " ", "3", "4">>>>,
     <<<<>>, <<>>, <<>>, <<>>, <<>>, <<>>, <<>>, <<"S", "L", "O", "T", " ", "3", "4">>, <<"T", "O", "O", " ", "F", "A", "R", " ", "T", "O", " ", "B", "E", " ", "S", "E", "E", "N">>>>}

\* coordinate columns of the licensee lines: plausible ones, and ones whose
\* longitude minutes or seconds column holds a long text
LicenseeCoords ==
    {GoodCoords,
     <<<<"3", "7">>, <<"4", "5">>, <<"1", "9", ".", "0">>, <<"1", "2", "2">>, <<"A", "B", "C", "D", "E", "F", "G", "H", "I", "J", "K", "L", "M">>, <<"6", ".", "0">>>>,
     <<<<"3", "7">>, <<"4", "5">>, <<"1", "9", ".", "0">>, <<"1", "2", "2">>, <<"2", "7">>, <<"S", "E", "C", "O", "N", "D", "S", " ", "T", "E", "X", "T">>>>}

\* lines that vary the columns the licensee scan looks at
LicenseeLines ==
    {Join(SubSeq(FullFields(<<"K", "Q", "E", "D">>, <<"8", "8", ".", "5", " ", " ", "M", "H", "z">>, <<"C", "A">>, <<<<"F", "M">>, <<"2", ".", "5", " ", " ", " ", "k", "W">>>>, co), 1, 27) \o tail, "|") :
        co \in LicenseeCoords, tail \in LicenseeTails}

LineInputs ==
    FrequencyLines \cup CoordinateLines \cup DirectionLines \cup PowerLines
        \cup CallSignLines \cup LicenseeLines

\* lines for _get_field alone: from a single column to a full line, columns
\* padded with blanks
GetFieldLines ==
    {<<>>} \cup
    {MkLine(n, <<" ", "K", "Q", "E", "D", " ">>, <<"8", "8", ".", "5", " ", " ", "M", "H", "z", " ">>, <<" ", "C", "A">>, <<<<"F", "M">>, <<"2", ".", "5", " ", " ", " ", "k", "W">>>>, GoodCoords) :
        n \in {1, 2, 3, 10, 14, 20, 25, 26, 27, 29}}

\* field names asked of _get_field: the mapped ones and two that are not
FieldNames ==
    {"call_sign", "frequency", "service_type", "status", "city", "state",
     "country", "facility_id", "power", "lat_direction", "lat_degrees",
     "lat_minutes", "lat_seconds", "lon_direction", "lon_degrees",
     "lon_minutes", "lon_seconds", "licensee", "genre"}

\* lines of a batch: two well-formed lines with different call signs, a line
\* without call sign, two lines whose record fails validation
\* (frequency out of range, state too long), a line whose seconds read nan
BatchLines ==
    {MkLine(29, <<"K", "Q", "E", "D">>, <<"8", "8", ".", "5", " ", " ", "M", "H", "z">>, <<"C", "A">>, <<<<"F", "M">>, <<"2", ".", "5", " ", " ", " ", "k", "W">>>>, GoodCoords),
     MkLine(29, <<"W", "A", "B", "C">>, <<"7", "7", "0", " ", " ", " ", "k", "H", "z">>, <<"N", "Y">>, <<<<"A", "M">>, <<"5", "0", ".", "0", " ", " ", " ", "k", "W">>>>, GoodCoords),
     MkLine(29, <<>>, <<"8", "8", ".", "5", " ", " ", "M", "H", "z">>, <<"C", "A">>, <<<<"F", "M">>, <<"2", ".", "5", " ", " ", " ", "k", "W">>>>, GoodCoords),
     MkLine(29, <<"K", "Q", "E", "D">>, <<"1", "0", "8", ".", "0", " ", " ", "M", "H", "z">>, <<"C", "A">>, <<<<"F", "M">>, <<"2", ".", "5", " ", " ", " ", "k", "W">>>>, GoodCoords),
     MkLine(29, <<"K", "Q", "E", "D">>, <<"8", "8", ".", "5", " ", " ", "M", "H", "z">>, <<"C", "A", "L">>, <<<<"F", "M">>, <<"2", ".", "5", " ", " ", " ", "k", "W">>>>, GoodCoords),
     MkLine(29, <<"K", "N", "A", "N">>, <<"8", "8", ".", "5", " ", " ", "M", "H", "z">>, <<"C", "A">>, <<<<"F", "M">>, <<"2", ".", "5", " ", " ", " ", "k", "W">>>>,
            <<<<"3", "7">>, <<"4", "5">>, <<"n", "a", "n">>, <<"1", "2", "2">>, <<"2", "7">>, <<"6", ".", "0">>>>)}

\* the longest batch
MaxLines == 3

BatchInputs == UNION {[1..n -> BatchLines] : n \in 1..MaxLines}

\* arguments of _parse_frequency: a numeric token, or none, followed by a unit
NumberTokens ==
    {<<>>, <<"0">>, <<"0", ".", "5", "4">>, <<"2", "9">>, <<"2", "9", ".", "9">>, <<"2", "9", ".", "9", "9", "9">>, <<"3", "0">>, <<"3", "0", ".", "0">>, <<"8", "8", ".", "1">>,
     <<"8", "8", ".", "5">>, <<"1", "0", "7", ".", "9">>, <<"1", "0", "8">>, <<"5", "2", "9">>, <<"5", "3", "0">>, <<"5", "4", "0">>, <<"1", "7", "0", "0">>, <<"1", "7", "0", "1">>}

UnitTexts == {<<>>, <<" ", "M", "H", "z">>, <<" ", " ", "M", "H", "z">>, <<"k", "H", "z">>, <<" ", "k", "H", "z">>, <<" ", " ", " ", "k", "H", "z">>, <<" ", "K", "H", "Z">>, <<" ", "k", "h", "z">>}

FreqInputs == {n \o u : n \in NumberTokens, u \in UnitTexts}

(***************************************************************************)
(* Inputs of the genre detection and of the store.                          *)
(***************************************************************************)

\* the call signs of the rows of the stations table in a detect-genres run
GenreCallSigns == {"KQED", "WABC", "KNAN"}

\* max_retries of detect_genre, which no caller overrides
MaxRetries == 3

\* the most stations a run processes
MaxStations == 2

\* the stations of a run: distinct rows, in any order (ORDER BY RANDOM())
StationLists ==
    {st \in UNION {[1..n -> GenreCallSigns] : n \in 1..MaxStations} :
        \A i, j \in 1..Len(st) : i # j => st[i] # st[j]}

\* records handed to _store_stations: an FM station, an AM station, and an AM
\* station that has the call sign of the first
StoreRecords ==
    {ParseFMLine(MkLine(29, <<"K", "Q", "E", "D">>, <<"8", "8", ".", "5", " ", " ", "M", "H", "z">>, <<"C", "A">>, <<<<"F", "M">>, <<"2", ".", "5", " ", " ", " ", "k", "W">>>>, GoodCoords)).station[1],
     ParseAMLine(MkLine(29, <<"W", "A", "B", "C">>, <<"7", "7", "0", " ", " ", " ", "k", "H", "z">>, <<"N", "Y">>, <<<<"A", "M">>, <<"5", "0", ".", "0", " ", " ", " ", "k", "W">>>>, GoodCoords)).station[1],
     ParseAMLine(MkLine(29, <<"K", "Q", "E", "D">>, <<"5", "4", "0", " ", " ", " ", "k", "H", "z">>, <<"N", "V">>, <<<<"A", "M">>, <<"-">>>>, GoodCoords)).station[1]}

\* the most records a call of _store_stations is given
MaxStored == 3

StoreInputs == UNION {[1..n -> StoreRecords] : n \in 1..MaxStored}

\* str.lower() on one character
UpperLetters == <<"A", "B", "C", "D", "E", "F", "G", "H", "I", "J", "K", "L", "M", "N", "O", "P", "Q", "R", "S", "T", "U", "V", "W", "X", "Y", "Z">>

LowerLetters == <<"a", "b", "c", "d", "e", "f", "g", "h", "i", "j", "k", "l", "m", "n", "o", "p", "q", "r", "s", "t", "u", "v", "w", "x", "y", "z">>

LowerChar(c) ==
    IF \E i \in 1..Len(UpperLetters) : UpperLetters[i] = c
    THEN LowerLetters[CHOOSE i \in 1..Len(UpperLetters) : UpperLetters[i] = c]
    ELSE c

\* str.lower()
LowerText(s) == [i \in 1..Len(s) |-> LowerChar(s[i])]

\* str.startswith(p)
StartsWith(s, p) == Len(s) >= Len(p) /\ SubSeq(s, 1, Len(p)) = p

\* str.strip(chars)
RECURSIVE StripChars(_, _)
StripChars(s, chars) ==
    IF s = <<>> THEN s
    ELSE IF s[1] \in chars THEN StripChars(Tail(s), chars)
    ELSE IF s[Len(s)] \in chars THEN StripChars(SubSeq(s, 1, Len(s) - 1), chars)
    ELSE s

\* _extract_genre: prefixes_to_remove, in the order of the list
PrefixesToRemove ==
    <<<<"T", "h", "e", " ", "g", "e", "n", "r", "e", " ", "i", "s">>, <<"T", "h", "e", " ", "f", "o", "r", "m", "a", "t", " ", "i", "s">>, <<"T", "h", "i", "s", " ", "s", "t", "a", "t", "i", "o", "n", " ", "p", "l", "a", "y", "s">>, <<"P", "r", "i", "m", "a", "r", "y", " ", "g", "e", "n", "r", "e", ":">>,
      <<"F", "o", "r", "m", "a", "t", ":">>, <<"G", "e", "n", "r", "e", ":">>>>

\* _extract_genre: the words of an answer that names no genre
UnknownWords == {<<"u", "n", "k", "n", "o", "w", "n">>, <<"u", "n", "c", "l", "e", "a", "r">>, <<"c", "a", "n", "n", "o", "t", " ", "d", "e", "t", "e", "r", "m", "i", "n", "e">>, <<"n", "o", "t", " ", "f", "o", "u", "n", "d">>}

\* _extract_genre: the for loop over the prefixes, from prefix i on
RECURSIVE RemovePrefixes(_, _)
RemovePrefixes(g, i) ==
    IF i > Len(PrefixesToRemove) THEN g
    ELSE IF StartsWith(LowerText(g), LowerText(PrefixesToRemove[i]))
         THEN RemovePrefixes(Strip(SubSeq(g, Len(PrefixesToRemove[i]) + 1, Len(g))), i + 1)
         ELSE RemovePrefixes(g, i + 1)

\* _extract_genre: strip, drop the prefixes, strip the punctuation, normalise
\* an answer that names no genre, cut to 50 characters; None when nothing is
\* left
ExtractGenre(response_text) ==
    IF response_text = <<>> THEN None
    ELSE LET cleaned == StripChars(RemovePrefixes(Strip(response_text), 1),
                                   {".", "\"", "'"})
             cut == IF Len(cleaned) > 50 THEN Strip(SubSeq(cleaned, 1, 50))
                    ELSE cleaned
         IN  IF \E w \in UnknownWords : Contains(LowerText(cleaned), w)
             THEN Some(<<"U", "n", "k", "n", "o", "w", "n">>)
             ELSE IF cut = <<>> THEN None ELSE Some(cut)

\* response.text of a grounded answer: empty, a genre behind a prefix and
\* before a full stop, an answer that names none, one that is nothing but a
\* prefix and quotes, and one longer than 50 characters
ResponseTexts ==
    {<<>>,
     <<"G", "e", "n", "r", "e", ":", " ", "J", "a", "z", "z", ".">>,
     <<" ", "T", "h", "e", " ", "g", "e", "n", "r", "e", " ", "i", "s", " ", "u", "n", "k", "n", "o", "w", "n", " ">>,
     <<"F", "o", "r", "m", "a", "t", ":", " ", "'", "'">>,
     <<"A", "d", "u", "l", "t", " ", "C", "o", "n", "t", "e", "m", "p", "o", "r", "a", "r", "y", " ", "w", "i", "t", "h", " ", "C", "l", "a", "s", "s", "i", "c", " ", "H", "i", "t", "s", " ", "o", "f", " ", "t", "h", "e", " ", "S", "e", "v", "e", "n", "t", "i", "e", "s">>}

\* if response.text: genre = self._extract_genre(response.text); return genre
GroundedResult(text) == IF text # <<>> THEN ExtractGenre(text) ELSE None

\* if genre: a value that is neither None nor the empty string
Truthy(g) == g # None /\ g[1] # <<>>

\* the genre column of a row that has none
NoGenre == <<>>

(***************************************************************************)
(* The parts of the state before any call is made.                          *)
(***************************************************************************)

\* no _get_field call under way
FieldIdle ==
    /\ gf_line = <<>>
    /\ gf_name = "call_sign"
    /\ gf_out = <<>>

\* GenreDetector() just constructed, no command running, no genre stored
GenreIdle ==
    /\ caller = "cli"
    /\ g_pc = "idle"
    /\ g_stations = <<>>
    /\ g_i = 1
    /\ attempt = 0
    /\ genre = None
    /\ quota_exceeded = FALSE
    /\ api_requests = 0
    /\ call_requests = 0
    /\ last_response = "none"
    /\ db_genre = [c \in GenreCallSigns |-> NoGenre]
    /\ db_committed = [c \in GenreCallSigns |-> NoGenre]
    /\ updated_count = 0
    /\ results = <<>>
    /\ console = <<>>

\* _store_stations not called, an empty stations table
StoreIdle ==
    /\ s_pc = "idle"
    /\ s_stations = <<>>
    /\ s_i = 1
    /\ s_attempted = <<>>
    /\ s_rows = {}
    /\ s_committed = {}

\* the fetch command is not running
CmdIdle ==
    /\ c_pc = "idle"
    /\ c_service = "both"
    /\ c_limit = 0
    /\ all_stations = <<>>

(***************************************************************************)
(* fetch_fm_stations / fetch_am_stations: the batch driver.                 *)
(***************************************************************************)

\* the caller invokes fetch_fm_stations
CallFetchFM ==
    /\ pc = "idle"
    /\ pc' = "fetching"
    /\ service' = FM
    /\ UNCHANGED <<nan_passes, lines, line_num, stations, error_log, line_vars, freq_vars,
                 field_vars, genre_vars, store_vars, cmd_vars>>

\* the caller invokes fetch_am_stations
CallFetchAM ==
    /\ pc = "idle"
    /\ pc' = "fetching"
    /\ service' = AM
    /\ UNCHANGED <<nan_passes, lines, line_num, stations, error_log, line_vars, freq_vars,
                 field_vars, genre_vars, store_vars, cmd_vars>>

\* requests.get / raise_for_status raise: the exception leaves the function
FetchFails ==
    /\ pc = "fetching"
    /\ pc' = "raised"
    /\ UNCHANGED <<nan_passes, service, lines, line_num, stations, error_log, line_vars, freq_vars,
                 field_vars, genre_vars, store_vars, cmd_vars>>

\* the response arrives: stations = [], lines = response.text.strip().split('\n')
FetchReturns ==
    /\ pc = "fetching"
    /\ \E ls \in BatchInputs :
          lines' = ls
    /\ stations' = <<>>
    /\ line_num' = 1
    /\ pc' = "loop"
    /\ UNCHANGED <<nan_passes, service, error_log, line_vars, freq_vars,
                 field_vars, genre_vars, store_vars, cmd_vars>>

\* a variant of ParseNextLine without the try: a validation error leaves the
\* loop and the function
ParseNextLineRaises ==
    /\ pc = "loop"
    /\ line_num <= Len(lines)
    /\ LET out == ParseLine(service, lines[line_num])
       IN  /\ stations' = IF out.kind = "record"
                          THEN Append(stations, out.station[1])
                          ELSE stations
           /\ pc' = IF out.kind = "raise" THEN "raised" ELSE pc
           /\ line_num' = IF out.kind = "raise" THEN line_num ELSE line_num + 1
    /\ UNCHANGED <<nan_passes, service, lines, error_log, line_vars, freq_vars,
                 field_vars, genre_vars, store_vars, cmd_vars>>

\* one iteration of the for loop: try / parse / append, or except / continue
ParseNextLine ==
    /\ pc = "loop"
    /\ line_num <= Len(lines)
    /\ LET out == ParseLine(service, lines[line_num])
       IN  /\ stations' = IF out.kind = "record"
                          THEN Append(stations, out.station[1])
                          ELSE stations
           /\ error_log' = IF out.kind = "raise"
                           THEN Append(error_log, line_num)
                           ELSE error_log
    /\ line_num' = line_num + 1
    /\ UNCHANGED <<nan_passes, pc, service, lines, line_vars, freq_vars,
                 field_vars, genre_vars, store_vars, cmd_vars>>

\* the loop is exhausted: return stations
ReturnStations ==
    /\ pc = "loop"
    /\ line_num > Len(lines)
    /\ pc' = "done"
    /\ UNCHANGED <<nan_passes, service, lines, line_num, stations, error_log, line_vars, freq_vars,
                 field_vars, genre_vars, store_vars, cmd_vars>>

Init ==
    /\ nan_passes \in BOOLEAN
    /\ pc = "idle"
    /\ service = FM
    /\ lines = <<>>
    /\ line_num = 1
    /\ stations = <<>>
    /\ error_log = <<>>
    /\ p_service = FM
    /\ p_line = <<>>
    /\ p_out = <<>>
    /\ f_str = <<>>
    /\ f_out = <<>>
    /\ FieldIdle
    /\ GenreIdle
    /\ StoreIdle
    /\ CmdIdle

Next ==
    \/ CallFetchFM
    \/ CallFetchAM
    \/ FetchFails
    \/ FetchReturns
    \/ ParseNextLine
    \/ ReturnStations

Spec == Init /\ [][Next]_vars

(***************************************************************************)
(* A single call of _parse_fm_line / _parse_am_line on one line.            *)
(***************************************************************************)
LineInit ==
    /\ nan_passes \in BOOLEAN
    /\ pc = "idle"
    /\ service = FM
    /\ lines = <<>>
    /\ line_num = 1
    /\ stations = <<>>
    /\ error_log = <<>>
    /\ p_service \in {FM, AM}
    /\ p_line \in LineInputs
    /\ p_out = <<>>
    /\ f_str = <<>>
    /\ f_out = <<>>
    /\ FieldIdle
    /\ GenreIdle
    /\ StoreIdle
    /\ CmdIdle

CallParseFMLine ==
    /\ p_out = <<>>
    /\ p_service = FM
    /\ p_out' = <<ParseFMLine(p_line)>>
    /\ UNCHANGED <<nan_passes, batch_vars, p_service, p_line, freq_vars,
                 field_vars, genre_vars, store_vars, cmd_vars>>

CallParseAMLine ==
    /\ p_out = <<>>
    /\ p_service = AM
    /\ p_out' = <<ParseAMLine(p_line)>>
    /\ UNCHANGED <<nan_passes, batch_vars, p_service, p_line, freq_vars,
                 field_vars, genre_vars, store_vars, cmd_vars>>

LineNext ==
    \/ CallParseFMLine
    \/ CallParseAMLine

LineSpec == LineInit /\ [][LineNext]_vars

(***************************************************************************)
(* A single call of _parse_frequency on one text.                           *)
(***************************************************************************)
FreqInit ==
    /\ nan_passes = TRUE
    /\ pc = "idle"
    /\ service = FM
    /\ lines = <<>>
    /\ line_num = 1
    /\ stations = <<>>
    /\ error_log = <<>>
    /\ p_service = FM
    /\ p_line = <<>>
    /\ p_out = <<>>
    /\ f_str \in FreqInputs
    /\ f_out = <<>>
    /\ FieldIdle
    /\ GenreIdle
    /\ StoreIdle
    /\ CmdIdle

CallParseFrequency ==
    /\ f_out = <<>>
    /\ f_out' = <<ParseFrequency(f_str)>>
    /\ UNCHANGED <<nan_passes, batch_vars, line_vars, f_str,
                 field_vars, genre_vars, store_vars, cmd_vars>>

FreqNext == CallParseFrequency

FreqSpec == FreqInit /\ [][FreqNext]_vars

(***************************************************************************)
(* A single call of _get_field on the columns of one line.                  *)
(***************************************************************************)
FieldInit ==
    /\ nan_passes = TRUE
    /\ pc = "idle"
    /\ service = FM
    /\ lines = <<>>
    /\ line_num = 1
    /\ stations = <<>>
    /\ error_log = <<>>
    /\ p_service \in {FM, AM}
    /\ p_line = <<>>
    /\ p_out = <<>>
    /\ f_str = <<>>
    /\ f_out = <<>>
    /\ gf_line \in GetFieldLines
    /\ gf_name \in FieldNames
    /\ gf_out = <<>>
    /\ GenreIdle
    /\ StoreIdle
    /\ CmdIdle

CallGetField ==
    /\ gf_out = <<>>
    /\ gf_out' = <<GetField(Split(gf_line, "|"),
                            IF p_service = FM THEN FM_FIELDS ELSE AM_FIELDS,
                            gf_name)>>
    /\ UNCHANGED <<nan_passes, batch_vars, line_vars, freq_vars, gf_line, gf_name,
                   genre_vars, store_vars, cmd_vars>>

FieldNext == CallGetField

FieldSpec == FieldInit /\ [][FieldNext]_vars

(***************************************************************************)
(* GenreDetector.detect_genre and its two callers: the detect-genres        *)
(* command of the CLI and detect_genres_batch.                              *)
(*   g_pc  "loop"      at the head of the caller's loop, station g_i next   *)
(*         "request"   in detect_genre, at the head of the attempt loop     *)
(*         "returned"  detect_genre has returned genre to the caller        *)
(*         "commit"    the CLI loop is left, conn.commit() comes next       *)
(*         "done"      the caller has returned                              *)
(*         "failed"    the CLI command ended in typer.Exit(1)               *)
(***************************************************************************)

\* no fetch, no single-line parse, no _parse_frequency call under way
BatchIdle ==
    /\ pc = "idle"
    /\ service = FM
    /\ lines = <<>>
    /\ line_num = 1
    /\ stations = <<>>
    /\ error_log = <<>>

LineIdle ==
    /\ p_service = FM
    /\ p_line = <<>>
    /\ p_out = <<>>

FreqIdle ==
    /\ f_str = <<>>
    /\ f_out = <<>>

\* everything outside the genre detection
not_genre_vars ==
    <<nan_passes, batch_vars, line_vars, freq_vars, field_vars, store_vars,
      cmd_vars>>

\* the call sign of the station the loop is at
CurrentStation == g_stations[g_i]

\* detect_genre is called with the quota flag set: return None at once
DetectGenreQuotaSet ==
    /\ g_pc = "loop"
    /\ g_i <= Len(g_stations)
    /\ quota_exceeded
    /\ genre' = None
    /\ call_requests' = 0
    /\ g_pc' = "returned"
    /\ UNCHANGED <<caller, g_stations, g_i, attempt, quota_exceeded, api_requests,
                   last_response, db_genre, db_committed, updated_count, results,
                   console, not_genre_vars>>

\* a variant of DetectGenreEnter that does not look at the quota flag
DetectGenreEnterUnchecked ==
    /\ g_pc = "loop"
    /\ g_i <= Len(g_stations)
    /\ attempt' = 0
    /\ call_requests' = 0
    /\ g_pc' = "request"
    /\ UNCHANGED <<caller, g_stations, g_i, genre, quota_exceeded, api_requests,
                   last_response, db_genre, db_committed, updated_count, results,
                   console, not_genre_vars>>

\* detect_genre is called with the flag clear: build the query, enter the loop
DetectGenreEnter ==
    /\ g_pc = "loop"
    /\ g_i <= Len(g_stations)
    /\ ~quota_exceeded
    /\ attempt' = 0
    /\ call_requests' = 0
    /\ g_pc' = "request"
    /\ UNCHANGED <<caller, g_stations, g_i, genre, quota_exceeded, api_requests,
                   last_response, db_genre, db_committed, updated_count, results,
                   console, not_genre_vars>>

\* generate_content answers without grounding metadata: continue
ResponseUngrounded ==
    /\ g_pc = "request"
    /\ attempt < MaxRetries
    /\ api_requests' = api_requests + 1
    /\ call_requests' = call_requests + 1
    /\ last_response' = "ungrounded"
    /\ attempt' = attempt + 1
    /\ UNCHANGED <<caller, g_pc, g_stations, g_i, genre, quota_exceeded, db_genre,
                   db_committed, updated_count, results, console, not_genre_vars>>

\* generate_content answers grounded: return _extract_genre(response.text),
\* or None when the text is empty
ResponseGrounded ==
    /\ g_pc = "request"
    /\ attempt < MaxRetries
    /\ api_requests' = api_requests + 1
    /\ call_requests' = call_requests + 1
    /\ last_response' = "grounded"
    /\ \E text \in ResponseTexts : genre' = GroundedResult(text)
    /\ g_pc' = "returned"
    /\ UNCHANGED <<caller, g_stations, g_i, attempt, quota_exceeded, db_genre,
                   db_committed, updated_count, results, console, not_genre_vars>>

\* generate_content raises a quota or rate-limit error: set the flag, return None
ResponseQuotaError ==
    /\ g_pc = "request"
    /\ attempt < MaxRetries
    /\ api_requests' = api_requests + 1
    /\ call_requests' = call_requests + 1
    /\ last_response' = "quota_error"
    /\ quota_exceeded' = TRUE
    /\ genre' = None
    /\ g_pc' = "returned"
    /\ UNCHANGED <<caller, g_stations, g_i, attempt, db_genre, db_committed,
                   updated_count, results, console, not_genre_vars>>

\* a variant of ResponseOtherError that retries after the exception
ResponseOtherErrorRetries ==
    /\ g_pc = "request"
    /\ attempt < MaxRetries
    /\ api_requests' = api_requests + 1
    /\ call_requests' = call_requests + 1
    /\ last_response' = "error"
    /\ attempt' = attempt + 1
    /\ UNCHANGED <<caller, g_pc, g_stations, g_i, genre, quota_exceeded, db_genre,
                   db_committed, updated_count, results, console, not_genre_vars>>


\* generate_content raises any other exception: return None
ResponseOtherError ==
    /\ g_pc = "request"
    /\ attempt < MaxRetries
    /\ api_requests' = api_requests + 1
    /\ call_requests' = call_requests + 1
    /\ last_response' = "error"
    /\ genre' = None
    /\ g_pc' = "returned"
    /\ UNCHANGED <<caller, g_stations, g_i, attempt, quota_exceeded, db_genre,
                   db_committed, updated_count, results, console, not_genre_vars>>

\* range(max_retries) is exhausted: return None
RetriesExhausted ==
    /\ g_pc = "request"
    /\ attempt = MaxRetries
    /\ genre' = None
    /\ g_pc' = "returned"
    /\ UNCHANGED <<caller, g_stations, g_i, attempt, quota_exceeded, api_requests,
                   call_requests, last_response, db_genre, db_committed,
                   updated_count, results, console, not_genre_vars>>

\* a variant of CliQuotaBreak that leaves the command instead of the loop
CliQuotaReturn ==
    /\ g_pc = "returned"
    /\ caller = "cli"
    /\ quota_exceeded
    /\ g_pc' = "done"
    /\ UNCHANGED <<caller, g_stations, g_i, attempt, genre, quota_exceeded,
                   api_requests, call_requests, last_response, db_genre,
                   db_committed, updated_count, results, console, not_genre_vars>>

\* detect_genres: the flag is set after the call: break
CliQuotaBreak ==
    /\ g_pc = "returned"
    /\ caller = "cli"
    /\ quota_exceeded
    /\ g_pc' = "commit"
    /\ UNCHANGED <<caller, g_stations, g_i, attempt, genre, quota_exceeded,
                   api_requests, call_requests, last_response, db_genre,
                   db_committed, updated_count, results, console, not_genre_vars>>

\* detect_genres: a genre came back: UPDATE stations SET genre, count it
CliUpdateGenre ==
    /\ g_pc = "returned"
    /\ caller = "cli"
    /\ ~quota_exceeded
    /\ Truthy(genre)
    /\ db_genre' = [db_genre EXCEPT ![CurrentStation] = genre[1]]
    /\ updated_count' = updated_count + 1
    /\ console' = Append(console, <<CurrentStation, genre>>)
    /\ g_i' = g_i + 1
    /\ g_pc' = "loop"
    /\ UNCHANGED <<caller, g_stations, attempt, genre, quota_exceeded, api_requests,
                   call_requests, last_response, db_committed, results,
                   not_genre_vars>>

\* detect_genres: the UPDATE raises: the command's except ends it with
\* typer.Exit(1), nothing is committed
CliUpdateFails ==
    /\ g_pc = "returned"
    /\ caller = "cli"
    /\ ~quota_exceeded
    /\ Truthy(genre)
    /\ g_pc' = "failed"
    /\ UNCHANGED <<caller, g_stations, g_i, attempt, genre, quota_exceeded,
                   api_requests, call_requests, last_response, db_genre,
                   db_committed, updated_count, results, console, not_genre_vars>>

\* a variant of CliNoGenre that records the failed detection in the row
CliNoGenreMarksUnknown ==
    /\ g_pc = "returned"
    /\ caller = "cli"
    /\ ~quota_exceeded
    /\ ~Truthy(genre)
    /\ db_genre' = [db_genre EXCEPT ![CurrentStation] = <<"U", "n", "k", "n", "o", "w", "n">>]
    /\ console' = Append(console, <<CurrentStation, None>>)
    /\ g_i' = g_i + 1
    /\ g_pc' = "loop"
    /\ UNCHANGED <<caller, g_stations, attempt, genre, quota_exceeded, api_requests,
                   call_requests, last_response, db_committed, updated_count,
                   results, not_genre_vars>>


\* detect_genres: None came back: database unchanged
CliNoGenre ==
    /\ g_pc = "returned"
    /\ caller = "cli"
    /\ ~quota_exceeded
    /\ ~Truthy(genre)
    /\ console' = Append(console, <<CurrentStation, None>>)
    /\ g_i' = g_i + 1
    /\ g_pc' = "loop"
    /\ UNCHANGED <<caller, g_stations, attempt, genre, quota_exceeded, api_requests,
                   call_requests, last_response, db_genre, db_committed,
                   updated_count, results, not_genre_vars>>

\* detect_genres: the for loop is exhausted
CliLoopEnds ==
    /\ g_pc = "loop"
    /\ caller = "cli"
    /\ g_i > Len(g_stations)
    /\ g_pc' = "commit"
    /\ UNCHANGED <<caller, g_stations, g_i, attempt, genre, quota_exceeded,
                   api_requests, call_requests, last_response, db_genre,
                   db_committed, updated_count, results, console, not_genre_vars>>

\* detect_genres: conn.commit(), conn.close()
CliCommit ==
    /\ g_pc = "commit"
    /\ db_committed' = db_genre
    /\ g_pc' = "done"
    /\ UNCHANGED <<caller, g_stations, g_i, attempt, genre, quota_exceeded,
                   api_requests, call_requests, last_response, db_genre,
                   updated_count, results, console, not_genre_vars>>

\* detect_genres_batch: results[station.call_sign] = genre
BatchStore ==
    /\ g_pc = "returned"
    /\ caller = "batch"
    /\ results' = Append(results, <<CurrentStation, genre>>)
    /\ g_i' = g_i + 1
    /\ g_pc' = "loop"
    /\ UNCHANGED <<caller, g_stations, attempt, genre, quota_exceeded, api_requests,
                   call_requests, last_response, db_genre, db_committed,
                   updated_count, console, not_genre_vars>>

\* detect_genres_batch: return results
BatchReturn ==
    /\ g_pc = "loop"
    /\ caller = "batch"
    /\ g_i > Len(g_stations)
    /\ g_pc' = "done"
    /\ UNCHANGED <<caller, g_stations, g_i, attempt, genre, quota_exceeded,
                   api_requests, call_requests, last_response, db_genre,
                   db_committed, updated_count, results, console, not_genre_vars>>

\* a detector just constructed; the stations to process are rows whose genre
\* is empty, the other rows of the table may hold a genre
GenreInit ==
    /\ nan_passes = TRUE
    /\ BatchIdle
    /\ LineIdle
    /\ FreqIdle
    /\ FieldIdle
    /\ StoreIdle
    /\ CmdIdle
    /\ caller \in {"cli", "batch"}
    /\ g_pc = "loop"
    /\ g_stations \in StationLists
    /\ g_i = 1
    /\ attempt = 0
    /\ genre = None
    /\ quota_exceeded = FALSE
    /\ api_requests = 0
    /\ call_requests = 0
    /\ last_response = "none"
    /\ \E other \in {NoGenre, <<"R", "o", "c", "k">>} :
          db_committed =
              [c \in GenreCallSigns |->
                  IF \E i \in 1..Len(g_stations) : g_stations[i] = c
                  THEN NoGenre ELSE other]
    /\ db_genre = db_committed
    /\ updated_count = 0
    /\ results = <<>>
    /\ console = <<>>

GenreNext ==
    \/ DetectGenreQuotaSet
    \/ DetectGenreEnter
    \/ ResponseUngrounded
    \/ ResponseGrounded
    \/ ResponseQuotaError
    \/ ResponseOtherError
    \/ RetriesExhausted
    \/ CliQuotaBreak
    \/ CliUpdateGenre
    \/ CliUpdateFails
    \/ CliNoGenre
    \/ CliLoopEnds
    \/ CliCommit
    \/ BatchStore
    \/ BatchReturn

GenreSpec == GenreInit /\ [][GenreNext]_vars

(***************************************************************************)
(* _store_stations: one INSERT OR REPLACE per record, one commit at the end.*)
(***************************************************************************)

\* everything outside the store
not_store_vars ==
    <<nan_passes, batch_vars, line_vars, freq_vars, field_vars, genre_vars,
      cmd_vars>>

\* a variant of Row whose tag leaves the service type out
RowTaggedFCC(station) ==
    [call_sign    |-> station.call_sign,
     facility_id  |-> station.facility_id,
     service_type |-> station.service_type,
     frequency    |-> station.frequency,
     station_name |-> None,
     city         |-> station.city,
     state        |-> station.state,
     latitude     |-> station.latitude,
     longitude    |-> station.longitude,
     power_watts  |-> station.power_watts,
     status       |-> station.status,
     data_source  |-> <<"F", "C", "C">>]


\* the values bound to the INSERT: the licensee is not among them
Row(station) ==
    [call_sign    |-> station.call_sign,
     facility_id  |-> station.facility_id,
     service_type |-> station.service_type,
     frequency    |-> station.frequency,
     station_name |-> None,
     city         |-> station.city,
     state        |-> station.state,
     latitude     |-> station.latitude,
     longitude    |-> station.longitude,
     power_watts  |-> station.power_watts,
     status       |-> station.status,
     data_source  |-> <<"F", "C", "C", "_">> \o station.service_type]

\* the conflict the table's key decides: two rows of one call sign
SameIdentity(r, row) == r.call_sign = row.call_sign

\* INSERT OR REPLACE INTO stations: a conflicting row gives way to the new one
InsertOrReplace(rows, row) == {r \in rows : ~SameIdentity(r, row)} \cup {row}

\* conn = get_connection(db_path): the transaction starts from the committed
\* table
CallStoreStations ==
    /\ s_pc = "idle"
    /\ s_pc' = "loop"
    /\ s_i' = 1
    /\ s_attempted' = <<>>
    /\ s_rows' = s_committed
    /\ UNCHANGED <<s_stations, s_committed, not_store_vars>>

\* a variant of StoreInsertFails in which the exception leaves the loop
StoreInsertAborts ==
    /\ s_pc = "loop"
    /\ s_i <= Len(s_stations)
    /\ s_attempted' = Append(s_attempted, FALSE)
    /\ s_rows' = s_committed
    /\ s_pc' = "done"
    /\ UNCHANGED <<s_stations, s_i, s_committed, not_store_vars>>

\* conn.execute succeeds for the next record
StoreInsert ==
    /\ s_pc = "loop"
    /\ s_i <= Len(s_stations)
    /\ s_rows' = InsertOrReplace(s_rows, Row(s_stations[s_i]))
    /\ s_attempted' = Append(s_attempted, TRUE)
    /\ s_i' = s_i + 1
    /\ UNCHANGED <<s_pc, s_stations, s_committed, not_store_vars>>

\* conn.execute raises for the next record: print the warning, continue
StoreInsertFails ==
    /\ s_pc = "loop"
    /\ s_i <= Len(s_stations)
    /\ s_attempted' = Append(s_attempted, FALSE)
    /\ s_i' = s_i + 1
    /\ UNCHANGED <<s_pc, s_stations, s_rows, s_committed, not_store_vars>>

\* the loop is exhausted: conn.commit(), conn.close()
StoreCommit ==
    /\ s_pc = "loop"
    /\ s_i > Len(s_stations)
    /\ s_committed' = s_rows
    /\ s_pc' = "done"
    /\ UNCHANGED <<s_stations, s_i, s_attempted, s_rows, not_store_vars>>

\* _store_stations is about to be called on a table that holds nothing or an
\* older row of one of the call signs
StoreInit ==
    /\ nan_passes = TRUE
    /\ BatchIdle
    /\ LineIdle
    /\ FreqIdle
    /\ FieldIdle
    /\ GenreIdle
    /\ CmdIdle
    /\ s_pc = "idle"
    /\ s_stations \in StoreInputs
    /\ s_i = 1
    /\ s_attempted = <<>>
    /\ s_committed \in {{}} \cup {{Row(st)} : st \in StoreRecords}
    /\ s_rows = s_committed

StoreNext ==
    \/ CallStoreStations
    \/ StoreInsert
    \/ StoreInsertFails
    \/ StoreCommit

StoreSpec == StoreInit /\ [][StoreNext]_vars

(***************************************************************************)
(* The fetch command: fetch FM, fetch AM, then one _store_stations, all in  *)
(* one try whose except ends the command with typer.Exit(1).                *)
(***************************************************************************)

\* everything outside the fetch command, the batch driver and the store
not_cmd_vars == <<nan_passes, line_vars, freq_vars, field_vars, genre_vars>>

\* the lines an upstream response is made of: one that parses to a record
\* and one without a call sign
CmdLines ==
    {MkLine(29, <<"K", "Q", "E", "D">>, <<"8", "8", ".", "5", " ", " ", "M", "H", "z">>, <<"C", "A">>, <<<<"F", "M">>, <<"2", ".", "5", " ", " ", " ", "k", "W">>>>, GoodCoords),
     MkLine(29, <<>>, <<"8", "8", ".", "5", " ", " ", "M", "H", "z">>, <<"C", "A">>, <<<<"F", "M">>, <<"2", ".", "5", " ", " ", " ", "k", "W">>>>, GoodCoords)}

\* the longest response the command is given
MaxCmdLines == 2

CmdBatchInputs == UNION {[1..n -> CmdLines] : n \in 1..MaxCmdLines}

\* --limit values: 0 stands for the option left out
CmdLimits == {0, 1}

\* s[:n]
Take(s, n) == SubSeq(s, 1, IF n < Len(s) THEN n ELSE Len(s))

\* service not in ("fm", "both"): the FM block is skipped
CmdSkipFM ==
    /\ c_pc = "fm"
    /\ c_service = "am"
    /\ c_pc' = "am"
    /\ UNCHANGED <<c_service, c_limit, all_stations, batch_vars, store_vars,
                   not_cmd_vars>>

\* fm_stations = fetcher.fetch_fm_stations(): the call
CmdFetchFM ==
    /\ c_pc = "fm"
    /\ c_service \in {"fm", "both"}
    /\ pc = "idle"
    /\ pc' = "fetching"
    /\ service' = FM
    /\ c_pc' = "fm_call"
    /\ UNCHANGED <<c_service, c_limit, all_stations, lines, line_num, stations,
                   error_log, store_vars, not_cmd_vars>>

\* the FM records are back: apply --limit when service is "fm", extend
CmdExtendFM ==
    /\ c_pc = "fm_call"
    /\ pc = "done"
    /\ all_stations' = all_stations \o
          (IF c_limit # 0 /\ c_service = "fm" THEN Take(stations, c_limit)
           ELSE stations)
    /\ pc' = "idle"
    /\ lines' = <<>>
    /\ line_num' = 1
    /\ stations' = <<>>
    /\ c_pc' = "am"
    /\ UNCHANGED <<c_service, c_limit, service, error_log, store_vars,
                   not_cmd_vars>>

\* service not in ("am", "both"): the AM block is skipped
CmdSkipAM ==
    /\ c_pc = "am"
    /\ c_service = "fm"
    /\ c_pc' = "store"
    /\ UNCHANGED <<c_service, c_limit, all_stations, batch_vars, store_vars,
                   not_cmd_vars>>

\* am_stations = fetcher.fetch_am_stations(): the call
CmdFetchAM ==
    /\ c_pc = "am"
    /\ c_service \in {"am", "both"}
    /\ pc = "idle"
    /\ pc' = "fetching"
    /\ service' = AM
    /\ c_pc' = "am_call"
    /\ UNCHANGED <<c_service, c_limit, all_stations, lines, line_num, stations,
                   error_log, store_vars, not_cmd_vars>>

\* the AM records are back: apply --limit when service is "am", extend
CmdExtendAM ==
    /\ c_pc = "am_call"
    /\ pc = "done"
    /\ all_stations' = all_stations \o
          (IF c_limit # 0 /\ c_service = "am" THEN Take(stations, c_limit)
           ELSE stations)
    /\ pc' = "idle"
    /\ lines' = <<>>
    /\ line_num' = 1
    /\ stations' = <<>>
    /\ c_pc' = "store"
    /\ UNCHANGED <<c_service, c_limit, service, error_log, store_vars,
                   not_cmd_vars>>

\* the response of the fetch under way arrives
CmdFetchReturns ==
    /\ c_pc \in {"fm_call", "am_call"}
    /\ pc = "fetching"
    /\ \E ls \in CmdBatchInputs :
          lines' = ls
    /\ stations' = <<>>
    /\ line_num' = 1
    /\ pc' = "loop"
    /\ UNCHANGED <<service, error_log, cmd_vars, store_vars, not_cmd_vars>>

\* a variant of CmdFetchRaised that goes on to store what was gathered
CmdFetchRaisedStoresParsed ==
    /\ c_pc \in {"fm_call", "am_call"}
    /\ pc = "raised"
    /\ c_pc' = "store"
    /\ UNCHANGED <<c_service, c_limit, all_stations, batch_vars, store_vars,
                   not_cmd_vars>>

\* the exception of a fetch reaches the command's except: print, typer.Exit(1)
CmdFetchRaised ==
    /\ c_pc \in {"fm_call", "am_call"}
    /\ pc = "raised"
    /\ c_pc' = "failed"
    /\ UNCHANGED <<c_service, c_limit, all_stations, batch_vars, store_vars,
                   not_cmd_vars>>

\* apply --limit when service is "both", then _store_stations(all_stations,
\* db_path): the transaction starts from the committed table
CmdStore ==
    /\ c_pc = "store"
    /\ s_pc = "idle"
    /\ LET limited == IF c_limit # 0 /\ c_service = "both"
                      THEN Take(all_stations, c_limit) ELSE all_stations
       IN  /\ all_stations' = limited
           /\ s_stations' = limited
    /\ s_pc' = "loop"
    /\ s_i' = 1
    /\ s_attempted' = <<>>
    /\ s_rows' = s_committed
    /\ c_pc' = "storing"
    /\ UNCHANGED <<c_service, c_limit, s_committed, batch_vars, not_cmd_vars>>

\* _store_stations returned: the command prints its summary
CmdDone ==
    /\ c_pc = "storing"
    /\ s_pc = "done"
    /\ c_pc' = "done"
    /\ UNCHANGED <<c_service, c_limit, all_stations, batch_vars, store_vars,
                   not_cmd_vars>>

\* the command enters its try with all_stations = [], on a table that holds
\* nothing or an older row
CmdInit ==
    /\ nan_passes = TRUE
    /\ BatchIdle
    /\ LineIdle
    /\ FreqIdle
    /\ FieldIdle
    /\ GenreIdle
    /\ s_pc = "idle"
    /\ s_stations = <<>>
    /\ s_i = 1
    /\ s_attempted = <<>>
    /\ s_committed \in {{}} \cup {{Row(st)} : st \in StoreRecords}
    /\ s_rows = s_committed
    /\ c_pc = "fm"
    /\ c_service \in {"fm", "am", "both"}
    /\ c_limit \in CmdLimits
    /\ all_stations = <<>>

CmdNext ==
    \/ CmdSkipFM
    \/ CmdFetchFM
    \/ CmdExtendFM
    \/ CmdSkipAM
    \/ CmdFetchAM
    \/ CmdExtendAM
    \/ CmdFetchReturns
    \/ FetchFails
    \/ ParseNextLine
    \/ ReturnStations
    \/ CmdFetchRaised
    \/ CmdStore
    \/ StoreInsert
    \/ StoreInsertFails
    \/ StoreCommit
    \/ CmdDone

CmdSpec == CmdInit /\ [][CmdNext]_vars

(***************************************************************************)
(* Properties of the batch driver (specification Spec).                     *)
(***************************************************************************)

\* the records of the lines of ls that parse, one by one, to a record
RECURSIVE RecordsOf(_, _)
RecordsOf(svc, ls) ==
    IF ls = <<>> THEN <<>>
    ELSE LET out == ParseLine(svc, ls[Len(ls)])
             before == RecordsOf(svc, SubSeq(ls, 1, Len(ls) - 1))
         IN  IF out.kind = "record" THEN Append(before, out.station[1]) ELSE before

\* the implicit failure count of a finished batch: the lines announced by
\* "Processing n stations" less the records announced by "Successfully parsed"
FailureCount == Len(lines) - Len(stations)

\* the state part of C1
LoopHoldsParsedPrefix ==
    /\ pc \in {"loop", "done"} =>
          /\ line_num \in 1..(Len(lines) + 1)
          /\ stations = RecordsOf(service, SubSeq(lines, 1, line_num - 1))
    /\ pc = "done" => line_num = Len(lines) + 1
    /\ pc = "raised" => lines = <<>>

\* the step part of C1: a step of the loop either takes exactly the next line
\* and stays in the loop, whatever became of that line, or, after the last
\* line, returns the list unchanged
LoopAdvances ==
    pc = "loop" =>
        \/ line_num <= Len(lines) /\ line_num' = line_num + 1 /\ pc' = "loop"
                                  /\ lines' = lines
        \/ line_num > Len(lines) /\ pc' = "done" /\ stations' = stations

\* C1: lines are processed one by one in input order and a failing line (None
\* or an exception) affects no other line: at every point of the loop the list
\* holds exactly the records of the lines handled so far that parse on their
\* own, in input order; no exception leaves the driver once the response is
\* in; and the loop leaves only after the last line.
C1_LineIsolation == []LoopHoldsParsedPrefix /\ [][LoopAdvances]_vars

\* a finished batch of three lines: the first raised, the second returned
\* None, and the third still gave the one record of the result
C1_Witness ==
    /\ pc = "done"
    /\ Len(lines) = 3
    /\ ParseLine(service, lines[1]).kind = "raise"
    /\ ParseLine(service, lines[2]).kind = "none"
    /\ ParseLine(service, lines[3]).kind = "record"
    /\ error_log = <<1>>
    /\ Len(stations) = 1

\* C2: no partial record is returned: every record of the list has a non-empty
\* call sign, a frequency in [0.53, 107.9] MHz, service type FM or AM, a state
\* of at most 2 characters, latitude in [-90, 90] and longitude in [-180, 180]
\* when present, and power >= 0 when present.
InClosedRange(opt, lo, hi) ==
    opt = None \/ (~opt[1].nan /\ lo * 3600000 <= opt[1].v /\ opt[1].v <= hi * 3600000)

C2_NoPartialRecord ==
    \A i \in 1..Len(stations) :
        LET r == stations[i]
        IN  /\ r.call_sign # <<>>
            /\ 530000 <= r.frequency /\ r.frequency <= 107900000
            /\ r.service_type \in {FM, AM}
            /\ Len(r.state) <= 2
            /\ InClosedRange(r.latitude, -90, 90)
            /\ InClosedRange(r.longitude, -180, 180)
            /\ (r.power_watts = None \/ r.power_watts[1] >= 0)

\* the well-formed lines of a batch and the lines that only lack the call sign
WellFormedLines ==
    {MkLine(29, <<"K", "Q", "E", "D">>, <<"8", "8", ".", "5", " ", " ", "M", "H", "z">>, <<"C", "A">>, <<<<"F", "M">>, <<"2", ".", "5", " ", " ", " ", "k", "W">>>>, GoodCoords),
     MkLine(29, <<"W", "A", "B", "C">>, <<"7", "7", "0", " ", " ", " ", "k", "H", "z">>, <<"N", "Y">>, <<<<"A", "M">>, <<"5", "0", ".", "0", " ", " ", " ", "k", "W">>>>, GoodCoords)}

NoCallSignLines ==
    {MkLine(29, <<>>, <<"8", "8", ".", "5", " ", " ", "M", "H", "z">>, <<"C", "A">>, <<<<"F", "M">>, <<"2", ".", "5", " ", " ", " ", "k", "W">>>>, GoodCoords)}

\* the call sign column of a line, as sent
CallSignColumn(line) == Strip(Split(line, "|")[2])

RECURSIVE CallSignsOfWellFormed(_)
CallSignsOfWellFormed(ls) ==
    IF ls = <<>> THEN <<>>
    ELSE IF Head(ls) \in WellFormedLines
    THEN <<CallSignColumn(Head(ls))>> \o CallSignsOfWellFormed(Tail(ls))
    ELSE CallSignsOfWellFormed(Tail(ls))

\* C3: a batch of N lines of which exactly K lack the call sign, the others
\* being well-formed, yields N-K records and a failure count of K, the records
\* being those of the well-formed lines in their original order.
C3_MalformedCount ==
    (pc = "done" /\ \A i \in 1..Len(lines) : lines[i] \in WellFormedLines \cup NoCallSignLines)
    => LET K == Cardinality({i \in 1..Len(lines) : lines[i] \in NoCallSignLines})
       IN  /\ Len(stations) = Len(lines) - K
           /\ FailureCount = K
           /\ [i \in 1..Len(stations) |-> stations[i].call_sign]
                 = CallSignsOfWellFormed(lines)

\* N = 3, K = 1: the line without call sign stands between two well-formed
\* lines with different call signs, which come out in input order
C3_Witness ==
    /\ pc = "done"
    /\ Len(lines) = 3
    /\ lines[1] \in WellFormedLines
    /\ lines[2] \in NoCallSignLines
    /\ lines[3] \in WellFormedLines
    /\ Len(stations) = 2
    /\ FailureCount = 1
    /\ stations[1].call_sign = <<"W", "A", "B", "C">>
    /\ stations[2].call_sign = <<"K", "Q", "E", "D">>

(***************************************************************************)
(* Properties of a single line parse (specification LineSpec).              *)
(***************************************************************************)

\* the number of pipe-separated columns of a line, counted on the raw text
ColumnCount(line) == Cardinality({i \in 1..Len(line) : line[i] = "|"}) + 1

\* the trimmed text of the column with 0-based index idx, empty when missing
Column(fs, idx) == IF idx < Len(fs) THEN Strip(fs[idx + 1]) ELSE <<>>

HasKHzMarker(text) == Contains(text, <<"k", "H", "z">>)

HasDigit(text) == \E i \in 1..Len(text) : IsDigit(text[i])

\* the mapping of the parser that is called
FieldsOf(svc) == IF svc = FM THEN FM_FIELDS ELSE AM_FIELDS

\* everything but the frequency is in order: enough columns, a call sign, a
\* state of at most two characters, no column that reads nan
RestValid(fs) ==
    /\ Len(fs) >= 26
    /\ Column(fs, 1) # <<>>
    /\ Len(Column(fs, 11)) <= 2
    /\ \A idx \in 20..26 : Column(fs, idx) # <<"n", "a", "n">>

\* C4: a line with fewer pipe-separated columns than the largest column index
\* of the mapping yields no record and raises nothing (it counts as a
\* failure), and no field is extracted from it.
C4_ShortLineRejected ==
    (p_out # <<>> /\ ColumnCount(p_line) < MaxIndex(FieldsOf(p_service)))
    => p_out[1] = Outcome("none", <<>>, FALSE)

\* a 25-column line was parsed and gave None without any extraction
C4_Witness ==
    LET fs == Split(p_line, "|")
    IN
        /\ p_out # <<>>
        /\ ColumnCount(p_line) = 25
        /\ Column(fs, 1) = <<"K", "Q", "E", "D">>
        /\ p_out[1].kind = "none"
        /\ ~p_out[1].extracted

\* C5: with a call sign present, a line whose frequency column has no numeric
\* token, or whose normalized value is outside [0.53, 107.9] MHz, gives no
\* record (None or a validation error that the driver catches, see C1); a
\* value inside is accepted whenever the rest of the line is valid; and the
\* FM and the AM parser decide alike.
C5_FrequencyPlausibility ==
    LET fs == Split(p_line, "|")
    IN
        (p_out # <<>> /\ ColumnCount(p_line) >= 26 /\ Column(fs, 1) # <<>>)
        => LET text == Column(fs, 2)
               f    == ParseFrequency(text)
           IN  /\ ~HasDigit(text) => p_out[1].kind = "none"
               /\ (HasDigit(text) /\ (f[1] < 530000 \/ f[1] > 107900000))
                     => p_out[1].kind \in {"none", "raise"} /\ p_out[1].station = <<>>
               /\ (HasDigit(text) /\ 530000 <= f[1] /\ f[1] <= 107900000 /\ RestValid(fs))
                     => p_out[1].kind = "record" /\ p_out[1].station[1].frequency = f[1]
               /\ ParseFMLine(p_line).kind = ParseAMLine(p_line).kind

\* both parsers accepted 50 MHz, which is neither an AM nor an FM frequency
C5_Witness ==
    LET fs == Split(p_line, "|")
    IN
        /\ p_out # <<>>
        /\ RestValid(fs)
        /\ Column(fs, 2) = <<"5", "0", ".", "0", " ", " ", "M", "H", "z">>
        /\ p_service = AM
        /\ p_out[1].kind = "record"
        /\ p_out[1].station[1].frequency = 50000000
        /\ ParseFMLine(p_line).kind = "record"

C8_FMFrequencyAndService ==
    LET fs == Split(p_line, "|")
    IN
        /\ (/\ p_out # <<>>
            /\ p_service = FM
            /\ RestValid(fs)
            /\ ~HasKHzMarker(Column(fs, 2))
            /\ HasDigit(Column(fs, 2)))
           => LET f == SearchNumber(Column(fs, 2))[1]    \* thousandths of a MHz
              IN  (88100 <= f /\ f <= 107900)
                  => /\ p_out[1].kind = "record"
                     /\ p_out[1].station[1].frequency = f * 1000
                     /\ p_out[1].station[1].service_type = FM
        /\ (p_out # <<>> /\ p_out[1].kind = "record")
           => p_out[1].station[1].service_type = p_service

\* the FM parser gave an FM record at 88.1 MHz for a line whose service-type
\* column reads AM
C8_Witness ==
    LET fs == Split(p_line, "|")
    IN
        /\ p_out # <<>>
        /\ p_service = FM
        /\ Column(fs, 3) = AM
        /\ Column(fs, 2) = <<"8", "8", ".", "1", " ", " ", "M", "H", "z">>
        /\ p_out[1].kind = "record"
        /\ p_out[1].station[1].frequency = 88100000
        /\ p_out[1].station[1].service_type = FM

\* C9: on every record latitude and longitude are both present or both
\* absent, and when present latitude is in [18, 72] and longitude in
\* [-180, -60].
C9_CoordinatesPlausible ==
    (p_out # <<>> /\ p_out[1].kind = "record")
    => LET r == p_out[1].station[1]
       IN  /\ (r.latitude = None) <=> (r.longitude = None)
           /\ InClosedRange(r.latitude, 18, 72)
           /\ InClosedRange(r.longitude, -180, -60)

\* the six coordinate columns of a line: <<lat d, m, s, lon d, m, s>>
CoordColumns(fs) ==
    <<Column(fs, 20), Column(fs, 21), Column(fs, 22),
      Column(fs, 24), Column(fs, 25), Column(fs, 26)>>

\* every coordinate column is empty or a finite number the code can read
CoordsComputable(c) ==
        /\ \A i \in {1, 2, 4, 5} : IntOrZero(c[i]) # <<>>
        /\ \A i \in {3, 6} : FloatOrZero(c[i]) # <<>> /\ ~FloatOrZero(c[i])[1].nan

\* the latitude and longitude the code computes, in milli-arcseconds
ComputedLat(c) ==
    IntOrZero(c[1])[1] * 3600000 + IntOrZero(c[2])[1] * 60000 + FloatOrZero(c[3])[1].v

ComputedLon(c) ==
    -(IntOrZero(c[4])[1] * 3600000 + IntOrZero(c[5])[1] * 60000 + FloatOrZero(c[6])[1].v)

\* the columns of a line with the coordinate columns it has replaced
WithCoords(fs, co) ==
        [i \in 1..Len(fs) |->
            IF i \in 21..23 THEN co[i - 20]
            ELSE IF i \in 25..27 THEN co[i - 21]
            ELSE fs[i]]

\* C10: implausible coordinates do not fail the line: when the latitude the
\* code computes is outside [18, 72] or the longitude outside [-180, -60], a
\* line that is valid otherwise still gives a record, with latitude and
\* longitude both absent and every other field as on the same line with
\* plausible coordinates.
C10_ImplausibleCoordinatesDropped ==
    LET fs == Split(p_line, "|")
        c  == CoordColumns(fs)
    IN
        (/\ p_out # <<>>
         /\ RestValid(fs)
         /\ ParseFrequency(Column(fs, 2)) # None
         /\ ValidFrequency(ParseFrequency(Column(fs, 2))[1])
         /\ CoordsComputable(c)
         /\ \/ ComputedLat(c) < 18 * 3600000 \/ ComputedLat(c) > 72 * 3600000
            \/ ComputedLon(c) < -180 * 3600000 \/ ComputedLon(c) > -60 * 3600000)
        => LET good == ParseFields(WithCoords(fs, GoodCoords), FieldsOf(p_service), p_service)
           IN  /\ good.kind = "record"
               /\ good.station[1].latitude # None
               /\ p_out[1].kind = "record"
               /\ p_out[1].station[1]
                     = [good.station[1] EXCEPT !.latitude = None, !.longitude = None]

\* a line with latitude 10 gave a record without coordinates
C10_Witness ==
    LET fs == Split(p_line, "|")
    IN
        /\ p_out # <<>>
        /\ CoordColumns(fs) = <<<<"1", "0">>, <<"0">>, <<"0">>, <<"1", "2", "2">>, <<"2", "7">>, <<"6", ".", "0">>>>
        /\ p_out[1].kind = "record"
        /\ p_out[1].station[1].latitude = None
        /\ p_out[1].station[1].longitude = None
        /\ p_out[1].station[1].call_sign = <<"K", "Q", "E", "D">>

(***************************************************************************)
(* Properties of _parse_frequency (specification FreqSpec).                 *)
(***************************************************************************)

\* the value of each numeric token of the inputs, in thousandths
TokenValue(n) ==
    CASE n = <<"0">> -> 0
      [] n = <<"0", ".", "5", "4">> -> 540
      [] n = <<"2", "9">> -> 29000
      [] n = <<"2", "9", ".", "9">> -> 29900
      [] n = <<"2", "9", ".", "9", "9", "9">> -> 29999
      [] n = <<"3", "0">> -> 30000
      [] n = <<"3", "0", ".", "0">> -> 30000
      [] n = <<"8", "8", ".", "1">> -> 88100
      [] n = <<"8", "8", ".", "5">> -> 88500
      [] n = <<"1", "0", "7", ".", "9">> -> 107900
      [] n = <<"1", "0", "8">> -> 108000
      [] n = <<"5", "2", "9">> -> 529000
      [] n = <<"5", "3", "0">> -> 530000
      [] n = <<"5", "4", "0">> -> 540000
      [] n = <<"1", "7", "0", "0">> -> 1700000
      [] n = <<"1", "7", "0", "1">> -> 1701000

\* the units that carry the kilohertz marker, which is the text kHz as written
KHzUnits == {<<"k", "H", "z">>, <<" ", "k", "H", "z">>, <<" ", " ", " ", "k", "H", "z">>}

BadIntTexts == {<<"N", "3", "7">>, <<"2", "7", ".", "5">>, <<"4", "x">>}

BadFloatTexts == {<<"1", "9", ".", "0", "N">>}

\* some coordinate column is non-empty and cannot be read as a number
HasUnparsableSubfield(c) ==
    \/ \E i \in {1, 2, 4, 5} : c[i] \in BadIntTexts
    \/ \E i \in {3, 6} : c[i] \in BadFloatTexts

\* the coordinate columns with "0" written into every empty one
EmptyAsZero(c) == [i \in 1..6 |-> IF c[i] = <<>> THEN <<"0">> ELSE c[i]]

\* the coordinate columns with every unparsable one emptied
UnparsableAsEmpty(c) ==
    [i \in 1..6 |->
        IF (i \in {1, 2, 4, 5} /\ c[i] \in BadIntTexts) \/ (i \in {3, 6} /\ c[i] \in BadFloatTexts)
        THEN <<>> ELSE c[i]]

\* C11 as stated: an unparsable subfield contributes 0 exactly as an empty one
\* does, and the remaining subfields still determine the coordinate.
C11_UnparsableDefaultsToZero ==
    LET fs == Split(p_line, "|")
        c  == CoordColumns(fs)
    IN
        (p_out # <<>> /\ HasUnparsableSubfield(c))
        => p_out[1] = ParseFields(WithCoords(fs, UnparsableAsEmpty(c)),
                                  FieldsOf(p_service), p_service)

\* C11 (amended): an empty or missing degrees/minutes/seconds subfield
\* contributes 0 to its axis, exactly as the text "0" does, and the remaining
\* subfields still determine the coordinate; a non-empty subfield that cannot
\* be read (degrees or minutes that are no integer literal, seconds that are no
\* number) makes latitude and longitude both absent, without failing the line:
\* the outcome is that of the same line with plausible coordinates, less the
\* coordinates.
C11_EmptyDefaultsToZero ==
    LET fs == Split(p_line, "|")
        c  == CoordColumns(fs)
    IN
        p_out # <<>> =>
            /\ p_out[1] = ParseFields(WithCoords(fs, EmptyAsZero(c)),
                                      FieldsOf(p_service), p_service)
            /\ HasUnparsableSubfield(c) =>
                  LET good == ParseFields(WithCoords(fs, GoodCoords),
                                          FieldsOf(p_service), p_service)
                  IN  /\ p_out[1].kind = good.kind
                      /\ p_out[1].kind = "record" =>
                            p_out[1].station[1]
                               = [good.station[1] EXCEPT !.latitude = None,
                                                         !.longitude = None]

\* longitude minutes "27.5" are no integer literal: the record was made and
\* has no coordinates, although every other subfield is plausible
C11_Witness ==
    LET fs == Split(p_line, "|")
    IN
        /\ p_out # <<>>
        /\ CoordColumns(fs) = <<<<"3", "7">>, <<"4", "5">>, <<"1", "9", ".", "0">>, <<"1", "2", "2">>, <<"2", "7", ".", "5">>, <<"6", ".", "0">>>>
        /\ p_out[1].kind = "record"
        /\ p_out[1].station[1].latitude = None
        /\ p_out[1].station[1].longitude = None


\* the value of the degrees and minutes texts of the inputs that are integer
\* literals, an empty one counting 0
IntTextValue(t) ==
    CASE t = <<>> -> 0
      [] t = <<"0">> -> 0
      [] t = <<"1", "0">> -> 10
      [] t = <<"1", "7">> -> 17
      [] t = <<"1", "8">> -> 18
      [] t = <<"2", "7">> -> 27
      [] t = <<"3", "0">> -> 30
      [] t = <<"3", "7">> -> 37
      [] t = <<"4", "0">> -> 40
      [] t = <<"4", "5">> -> 45
      [] t = <<"5", "9">> -> 59
      [] t = <<"6", "0">> -> 60
      [] t = <<"7", "2">> -> 72
      [] t = <<"7", "4">> -> 74
      [] t = <<"1", "2", "2">> -> 122
      [] t = <<"1", "8", "0">> -> 180
      [] OTHER -> -1

\* the value of the seconds texts of the inputs that are finite numbers, in
\* thousandths of a second
SecondsTextValue(t) ==
    CASE t = <<>> -> 0
      [] t = <<"0">> -> 0
      [] t = <<"0", ".", "0">> -> 0
      [] t = <<"0", ".", "0", "0", "1">> -> 1
      [] t = <<"6", ".", "0">> -> 6000
      [] t = <<"1", "9", ".", "0">> -> 19000
      [] t = <<"5", "9", ".", "9", "9", "9">> -> 59999
      [] OTHER -> -1

\* all six coordinate columns are readable, finite numbers
AllSubfieldsKnown(c) ==
    /\ \A i \in {1, 2, 4, 5} : IntTextValue(c[i]) >= 0
    /\ \A i \in {3, 6} : SecondsTextValue(c[i]) >= 0

\* degrees + minutes/60 + seconds/3600 of three columns, in milli-arcseconds
Sexagesimal(d, m, s) ==
    IntTextValue(d) * 3600000 + IntTextValue(m) * 60000 + SecondsTextValue(s)

\* C12: on a record that has coordinates, latitude is degrees + minutes/60 +
\* seconds/3600 of the latitude subfields and longitude is the negation of the
\* same expression over the longitude subfields, whatever the two direction
\* columns hold; (40, 30, 0) gives latitude 40.5 and (74, 0, 0) longitude -74.0.
C12_DecimalDegrees ==
    LET fs == Split(p_line, "|")
        c  == CoordColumns(fs)
    IN
        (p_out # <<>> /\ p_out[1].kind = "record" /\ AllSubfieldsKnown(c))
        => LET r   == p_out[1].station[1]
               lat == Sexagesimal(c[1], c[2], c[3])
               lon == -Sexagesimal(c[4], c[5], c[6])
           IN  /\ (18 * 3600000 <= lat /\ lat <= 72 * 3600000
                      /\ -180 * 3600000 <= lon /\ lon <= -60 * 3600000)
                  => /\ r.latitude = Some(Num(lat))
                     /\ r.longitude = Some(Num(lon))
               /\ c = <<<<"4", "0">>, <<"3", "0">>, <<"0">>, <<"7", "4">>, <<"0">>, <<"0">>>>
                  => /\ r.latitude = Some(Num(145800000))      \* 40.5 degrees
                     /\ r.longitude = Some(Num(-266400000))    \* -74.0 degrees

\* (40, 30, 0) and (74, 0, 0) on a line whose direction columns read S and E
\* gave latitude 40.5 and longitude -74.0
C12_Witness ==
    LET fs == Split(p_line, "|")
    IN
        /\ p_out # <<>>
        /\ Column(fs, 19) = <<"S">>
        /\ Column(fs, 23) = <<"E">>
        /\ CoordColumns(fs) = <<<<"4", "0">>, <<"3", "0">>, <<"0">>, <<"7", "4">>, <<"0">>, <<"0">>>>
        /\ p_out[1].kind = "record"
        /\ p_out[1].station[1].latitude = Some(Num(145800000))
        /\ p_out[1].station[1].longitude = Some(Num(-266400000))


\* the watts of each trimmed power text of the inputs: the first numeric token
\* times 1000, -1 standing for no value
PowerTextValue(t) ==
    CASE t = <<>> -> -1
      [] t = <<"-">> -> -1
      [] t = <<"k", "W">> -> -1
      [] t = <<"2", ".", "5", " ", " ", " ", "k", "W">> -> 2500
      [] t = <<"0", ".", "0", "0", "1", " ", "k", "W">> -> 1
      [] t = <<"5", "0", ".", "0", " ", " ", " ", "k", "W">> -> 50000
      [] t = <<"1", ".", "0", " ", "k", "W", " ", "E", "R", "P", " ", "2", ".", "0">> -> 1000
      [] t = <<"-", "5", " ", "k", "W">> -> 5000
      [] t = <<"0", " ", "k", "W">> -> 0

\* the columns of a line with the power column replaced
WithPower(fs, pw) ==
    [i \in 1..Len(fs) |-> IF i = 15 THEN pw ELSE fs[i]]

\* C13: the power column never fails a line: the outcome of a line is that of
\* the same line with power "2.5   kW", differing in power_watts alone; an
\* empty power column, "-" or a text without numeric token gives an absent
\* power, any other text its first numeric token times 1000, "2.5   kW" 2500.
C13_PowerParsing ==
    LET fs == Split(p_line, "|")
    IN
        p_out # <<>> =>
            LET ref == ParseFields(WithPower(fs, <<"2", ".", "5", " ", " ", " ", "k", "W">>), FieldsOf(p_service), p_service)
                w   == PowerTextValue(Column(fs, 14))
            IN  /\ p_out[1].kind = ref.kind
                /\ p_out[1].kind = "record" =>
                      /\ p_out[1].station[1].power_watts
                            = IF w < 0 THEN None ELSE Some(w)
                      /\ [p_out[1].station[1] EXCEPT !.power_watts = Some(2500)]
                            = ref.station[1]
                      /\ ref.station[1].power_watts = Some(2500)

\* a line whose power column reads "-" gave a record without power
C13_Witness ==
    LET fs == Split(p_line, "|")
    IN
        /\ p_out # <<>>
        /\ fs[15] = <<" ", "-", " ">>
        /\ p_out[1].kind = "record"
        /\ p_out[1].station[1].power_watts = None
        /\ p_out[1].station[1].call_sign = <<"K", "Q", "E", "D">>


\* the characters of a text that are not blanks
NonBlank(text) == SelectSeq(text, LAMBDA ch : ch # " ")

\* the line has a frequency that validates, a state of at most two characters
\* and no column that reads nan
OtherFieldsValid(fs) ==
    /\ Len(fs) >= 26
    /\ Len(Column(fs, 11)) <= 2
    /\ \A idx \in 20..26 : Column(fs, idx) # <<"n", "a", "n">>
    /\ ParseFrequency(Column(fs, 2)) # None
    /\ ValidFrequency(ParseFrequency(Column(fs, 2))[1])

\* C14: a line whose call sign column trims to "-" is accepted and, the other
\* fields being valid, yields a record with call_sign "-"; a line whose call
\* sign column trims to the empty string yields no record.
C14_PlaceholderCallSign ==
    LET fs == Split(p_line, "|")
    IN
        (p_out # <<>> /\ Len(fs) >= 26) =>
            /\ (NonBlank(fs[2]) = <<"-">> /\ OtherFieldsValid(fs))
                  => /\ p_out[1].kind = "record"
                     /\ p_out[1].station[1].call_sign = <<"-">>
            /\ NonBlank(fs[2]) = <<>>
                  => p_out[1] = Outcome("none", <<>>, TRUE)

\* the call sign column " - " gave a record whose call sign is "-"
C14_Witness ==
    LET fs == Split(p_line, "|")
    IN
        /\ p_out # <<>>
        /\ fs[2] = <<" ", "-", " ">>
        /\ p_out[1].kind = "record"
        /\ p_out[1].station[1].call_sign = <<"-">>
        /\ p_out[1].station[1].frequency = 88500000


(***************************************************************************)
(* A state value of more than two characters (specification Spec).          *)
(***************************************************************************)

\* the trimmed state column of a line
StateColumn(line) == Column(Split(line, "|"), 11)

\* the handled lines whose state column is longer than two characters
LongStateLines ==
    {i \in 1..(line_num - 1) : i <= Len(lines) /\ Len(StateColumn(lines[i])) > 2}

\* C15: a line whose state value is longer than 2 characters fails alone: it
\* gives no record, its validation error is caught and reported by the
\* driver, which never raises because of it, and the lines after it are
\* still parsed, the well-formed ones giving their records.
C15_LongStateSkipsLine ==
    /\ pc = "raised" => lines = <<>>
    /\ pc \in {"loop", "done"} =>
          /\ \A k \in 1..Len(stations) : Len(stations[k].state) <= 2
          /\ Len(stations) <= (line_num - 1) - Cardinality(LongStateLines)
          /\ \A i \in LongStateLines : \E k \in 1..Len(error_log) : error_log[k] = i
          /\ Len(stations) >=
                Cardinality({j \in 1..(line_num - 1) : lines[j] \in WellFormedLines})
    /\ pc = "done" =>
          /\ line_num = Len(lines) + 1
          /\ \A j \in 1..Len(lines) :
                (lines[j] \in WellFormedLines /\ \E i \in LongStateLines : i < j)
                => \E k \in 1..Len(stations) :
                      stations[k].call_sign = CallSignColumn(lines[j])

\* a finished batch whose first line has state "CAL": it was reported and
\* skipped, and the well-formed second line gave the only record
C15_Witness ==
    /\ pc = "done"
    /\ Len(lines) = 2
    /\ StateColumn(lines[1]) = <<"C", "A", "L">>
    /\ lines[2] \in WellFormedLines
    /\ error_log = <<1>>
    /\ Len(stations) = 1
    /\ stations[1].call_sign = CallSignColumn(lines[2])


(***************************************************************************)
(* The licensee scan (specification LineSpec).                              *)
(***************************************************************************)

\* the slot indices the scan may look at: 25 up to but excluding
\* min(35, field count)
LicenseeWindow(fs) == {i \in 25..34 : i < Len(fs)}

\* C16: the licensee of a record is the trimmed text of the first slot, in
\* increasing order of the indices 25 up to but excluding min(35, field
\* count), whose trimmed text is longer than 10 characters, and empty when no
\* slot qualifies; what the slots after index 26 hold never fails the line.
C16_LicenseeScan ==
    LET fs == Split(p_line, "|")
    IN
        (p_out # <<>> /\ Len(fs) >= 27) =>
            LET cut == ParseFields(SubSeq(fs, 1, 27), FieldsOf(p_service), p_service)
            IN  /\ p_out[1].kind = cut.kind
                /\ p_out[1].kind = "record" =>
                      LET found == p_out[1].station[1].licensee
                      IN  /\ [p_out[1].station[1] EXCEPT !.licensee = <<>>]
                                = [cut.station[1] EXCEPT !.licensee = <<>>]
                          /\ \/ \E i \in LicenseeWindow(fs) :
                                   /\ Len(Column(fs, i)) > 10
                                   /\ \A j \in LicenseeWindow(fs) :
                                         j < i => Len(Column(fs, j)) <= 10
                                   /\ found = Column(fs, i)
                             \/ /\ \A i \in LicenseeWindow(fs) : Len(Column(fs, i)) <= 10
                                /\ found = <<>>

\* slot 27 is short, slots 28 and 29 are long: the licensee is slot 28
C16_Witness ==
    LET fs == Split(p_line, "|")
    IN
        /\ p_out # <<>>
        /\ Len(fs) = 30
        /\ Column(fs, 27) = <<"S", "H", "O", "R", "T">>
        /\ Column(fs, 29) = <<"A", "N", "O", "T", "H", "E", "R", " ", "L", "O", "N", "G", " ", "O", "N", "E">>
        /\ p_out[1].kind = "record"
        /\ p_out[1].station[1].licensee = <<"A", " ", "L", "O", "N", "G", "E", "R", " ", "L", "I", "C", "E", "N", "S", "E", "E">>


(***************************************************************************)
(* Properties of _get_field (specification FieldSpec).                      *)
(***************************************************************************)

\* the configured column index of each field name, -1 for an unmapped name
ConfiguredIndex(name) ==
    CASE name = "call_sign" -> 1
      [] name = "frequency" -> 2
      [] name = "service_type" -> 3
      [] name = "status" -> 9
      [] name = "city" -> 10
      [] name = "state" -> 11
      [] name = "country" -> 12
      [] name = "facility_id" -> 13
      [] name = "power" -> 14
      [] name = "lat_direction" -> 19
      [] name = "lat_degrees" -> 20
      [] name = "lat_minutes" -> 21
      [] name = "lat_seconds" -> 22
      [] name = "lon_direction" -> 23
      [] name = "lon_degrees" -> 24
      [] name = "lon_minutes" -> 25
      [] name = "lon_seconds" -> 26
      [] OTHER -> -1

\* text is raw without the blanks at its two ends
IsTrimOf(text, raw) ==
    /\ NonBlank(text) = NonBlank(raw)
    /\ text # <<>> => text[1] # " " /\ text[Len(text)] # " "
    /\ \E a \in 0..Len(raw) : SubSeq(raw, a + 1, a + Len(text)) = text

\* C17: _get_field always returns a text: for a field name whose configured
\* column index is within the split line it is that slot's trimmed text, for
\* an unmapped name or an index >= the field count the empty string, also on
\* a line of 26 columns, which passes the length pre-check and lacks column 26.
C17_GetFieldTotal ==
    gf_out # <<>> =>
        LET idx == ConfiguredIndex(gf_name)
            n   == ColumnCount(gf_line)
            fs  == Split(gf_line, "|")
        IN  /\ Len(fs) = n
            /\ IF idx >= 0 /\ idx < n
               THEN IsTrimOf(gf_out[1], fs[idx + 1])
               ELSE gf_out[1] = <<>>
            /\ (n = 26 /\ gf_name = "lon_seconds") =>
                  ~TooShort(fs, FM_FIELDS) /\ gf_out[1] = <<>>

\* lon_seconds was asked of a line of 26 columns and came back empty
C17_Witness ==
    /\ gf_out = <<<<>>>>
    /\ gf_name = "lon_seconds"
    /\ ColumnCount(gf_line) = 26


(***************************************************************************)
(* Properties of the genre detection (specification GenreSpec).             *)
(***************************************************************************)

\* the state part of C18: the flag is false as long as the instance has
\* issued no request
QuotaFlagStartsFalse == api_requests = 0 => ~quota_exceeded

\* the step part of C18
QuotaFlagOneWay ==
    /\ quota_exceeded => quota_exceeded'
    /\ (~quota_exceeded /\ quota_exceeded')
          => /\ api_requests' = api_requests + 1
             /\ last_response' = "quota_error"
    /\ quota_exceeded =>
          /\ api_requests' = api_requests
          /\ (g_pc = "loop" /\ g_pc' # "loop" /\ g_i <= Len(g_stations))
                => g_pc' = "returned" /\ genre' = None /\ call_requests' = 0

\* C18: the quota flag of a GenreDetector is a one-way circuit breaker: it
\* starts false, only a quota or rate-limit error from the API sets it, it is
\* never reset, and once it is set every later detect_genre call returns None
\* without issuing a request.
C18_QuotaCircuitBreaker == []QuotaFlagStartsFalse /\ [][QuotaFlagOneWay]_vars

\* detect_genres_batch: the first station's only request tripped the quota,
\* and the call for the second station has returned None with no request
C18_Witness ==
    /\ caller = "batch"
    /\ quota_exceeded
    /\ g_i = 2
    /\ g_pc = "returned"
    /\ genre = None
    /\ results = <<<<g_stations[1], None>>>>
    /\ api_requests = 1
    /\ call_requests = 0


\* the rows whose genre the connection has changed
ChangedRows(db) ==
    {c \in GenreCallSigns :
        db[c] # NoGenre /\ \E i \in 1..Len(g_stations) : g_stations[i] = c}

\* the state part of C19, for the detect-genres command: once the flag is
\* seen the loop is left for the commit, and when the command has returned
\* the store holds every update the run made, one for each station that was
\* reported with a genre
QuotaRunCommitted ==
    caller = "cli" =>
        /\ quota_exceeded => g_pc \in {"returned", "commit", "done"}
        /\ g_pc = "done" =>
              /\ db_committed = db_genre
              /\ \A k \in 1..Len(console) :
                    console[k][2] # None
                    => db_committed[console[k][1]] = console[k][2][1]
              /\ Cardinality(ChangedRows(db_committed)) = updated_count

\* the step part of C19: with the flag set nothing is classified any more:
\* no request, no move to another station, no further update
QuotaHaltsRun ==
    (caller = "cli" /\ quota_exceeded) =>
        /\ api_requests' = api_requests
        /\ g_i' = g_i
        /\ db_genre' = db_genre
        /\ console' = console
        /\ g_pc' \in {"returned", "commit", "done"}

\* C19: in the detect-genres command quota exhaustion halts classification
\* for the rest of the run without discarding what was collected: after the
\* flag is observed no later station is classified, and every genre update
\* made for earlier stations in the run is committed to the store.
C19_QuotaHaltsAndCommits == []QuotaRunCommitted /\ [][QuotaHaltsRun]_vars

\* the first station got a genre, the second station's request tripped the
\* quota, and the command has returned with the first genre committed
C19_Witness ==
    /\ caller = "cli"
    /\ g_pc = "done"
    /\ quota_exceeded
    /\ Len(g_stations) = 2
    /\ g_i = 2
    /\ console = <<<<g_stations[1], Some(<<"J", "a", "z", "z">>)>>>>
    /\ db_committed[g_stations[1]] = <<"J", "a", "z", "z">>
    /\ db_committed[g_stations[2]] = NoGenre
    /\ updated_count = 1


(***************************************************************************)
(* Properties of _store_stations (specification StoreSpec).                 *)
(***************************************************************************)

\* the state part of C20: when the function has returned every record was
\* attempted, and the committed table holds the row of every record whose
\* insert succeeded, unless a later successful record of the same call sign
\* took its place
StoredBatchCommitted ==
    s_pc = "done" =>
        /\ Len(s_attempted) = Len(s_stations)
        /\ s_committed = s_rows
        /\ \A i \in 1..Len(s_stations) :
              s_attempted[i] =>
                  \/ Row(s_stations[i]) \in s_committed
                  \/ \E j \in (i + 1)..Len(s_stations) :
                        /\ s_attempted[j]
                        /\ s_stations[j].call_sign = s_stations[i].call_sign

\* the step part of C20: whatever becomes of a record, the loop goes on to
\* the next one, and a failure leaves the rows inserted so far in place
StoreLoopAdvances ==
    (s_pc = "loop" /\ s_i <= Len(s_stations)) =>
        /\ s_pc' = "loop"
        /\ s_i' = s_i + 1
        /\ Len(s_attempted') = s_i
        /\ ~s_attempted'[s_i] => s_rows' = s_rows

\* C20: in _store_stations a persistence failure on one record does not abort
\* the remaining batch: every later record is still attempted, and all
\* records whose insert succeeded are committed at the end.
C20_StoreFailureIsolated == []StoredBatchCommitted /\ [][StoreLoopAdvances]_vars

\* three records of which the second failed: the first and the third, of
\* different call signs, are both in the committed table
C20_Witness ==
    /\ s_pc = "done"
    /\ s_attempted = <<TRUE, FALSE, TRUE>>
    /\ s_stations[1].call_sign # s_stations[3].call_sign
    /\ Row(s_stations[1]) \in s_committed
    /\ Row(s_stations[3]) \in s_committed
    /\ Row(s_stations[2]) \notin s_committed


(***************************************************************************)
(* Properties of the fetch command (specification CmdSpec).                 *)
(***************************************************************************)

\* a fetch that raised has built no list of records, and a command ended by
\* it never entered _store_stations: the table is the one it started from
FailedFetchLeavesNothing ==
    /\ pc = "raised" => lines = <<>> /\ stations = <<>>
    /\ c_pc = "failed" =>
          /\ pc = "raised"
          /\ s_pc = "idle"
          /\ s_stations = <<>>
          /\ s_attempted = <<>>
          /\ s_rows = s_committed

\* the only step after a fetch raised ends the command, and it touches
\* neither the table nor all_stations; before the store is entered the table
\* does not change; a command that failed takes no further step
FailedFetchEndsCommand ==
    /\ pc = "raised" =>
          /\ c_pc' = "failed"
          /\ UNCHANGED <<store_vars, all_stations>>
    /\ c_pc \in {"fm", "fm_call", "am", "am_call", "store"} =>
          UNCHANGED <<s_rows, s_committed>>
    /\ c_pc # "failed"

\* C21: an upstream fetch failure is fatal to the batch: the fetch function
\* propagates the error and returns no records, and the fetch command then
\* stores nothing in that run, the records already parsed from the other
\* service's successful fetch included
C21_FetchFailureFatal ==
    []FailedFetchLeavesNothing /\ [][FailedFetchEndsCommand]_vars

\* both services asked for, the FM fetch gave a record, the AM fetch raised:
\* the command ended with the record in hand and an empty table
C21_Witness ==
    /\ c_pc = "failed"
    /\ c_service = "both"
    /\ service = AM
    /\ Len(all_stations) >= 1
    /\ s_committed = {}


(***************************************************************************)
(* Properties of the store's rows (specification StoreSpec).                *)
(***************************************************************************)

\* a table holds at most one row per call sign
OneRowPerCallSign(rows) ==
    \A r1 \in rows : \A r2 \in rows : r1.call_sign = r2.call_sign => r1 = r2

\* record i is the last one so far whose insert held among those of its call
\* sign
LastStoredOfCallSign(i) ==
    /\ i \in 1..Len(s_attempted)
    /\ s_attempted[i]
    /\ \A j \in (i + 1)..Len(s_attempted) :
          s_stations[j].call_sign = s_stations[i].call_sign => ~s_attempted[j]

\* the row carries the record's values in the columns the table takes from it
CarriesValues(row, rec) ==
    /\ row.call_sign = rec.call_sign
    /\ row.facility_id = rec.facility_id
    /\ row.service_type = rec.service_type
    /\ row.frequency = rec.frequency
    /\ row.city = rec.city
    /\ row.state = rec.state
    /\ row.latitude = rec.latitude
    /\ row.longitude = rec.longitude
    /\ row.power_watts = rec.power_watts
    /\ row.status = rec.status

\* the tag of a row written from rec
TaggedFor(row, rec) == row.data_source = <<"F", "C", "C", "_">> \o rec.service_type

\* the table has, for every record that is the last stored of its call sign,
\* a row of that call sign, and that row carries the record's values and tag
HoldsLastStored(rows) ==
    \A i \in 1..Len(s_attempted) :
        LastStoredOfCallSign(i) =>
            /\ \E row \in rows : row.call_sign = s_stations[i].call_sign
            /\ \A row \in rows :
                  row.call_sign = s_stations[i].call_sign =>
                      CarriesValues(row, s_stations[i]) /\ TaggedFor(row, s_stations[i])

\* C22: storage is upsert-by-identity on call sign: after storing any
\* sequence of records the store holds at most one row per call sign, that
\* row carries the values of the last successfully stored record with that
\* call sign, and its data-source tag is "FCC_" followed by that record's
\* service type
C22_UpsertByCallSign ==
    /\ OneRowPerCallSign(s_rows)
    /\ OneRowPerCallSign(s_committed)
    /\ s_pc = "loop" => HoldsLastStored(s_rows)
    /\ s_pc = "done" => HoldsLastStored(s_committed)

\* two records of one call sign and of different services were both stored
\* on an empty table: the committed table has the one row of the second
C22_Witness ==
    /\ s_pc = "done"
    /\ s_attempted = <<TRUE, TRUE>>
    /\ s_stations[1].call_sign = s_stations[2].call_sign
    /\ s_stations[1].service_type # s_stations[2].service_type
    /\ Cardinality(s_committed) = 1
    /\ \A row \in s_committed : row.service_type = s_stations[2].service_type


(***************************************************************************)
(* Properties of one detect_genre call (specification GenreSpec).           *)
(***************************************************************************)

\* a call has issued at most max_retries requests; while it is in its loop
\* every request it issued was answered without grounding metadata, and the
\* loop has an iteration or its exit ahead
RetriesBounded ==
    /\ call_requests <= MaxRetries
    /\ g_pc = "request" =>
          /\ attempt <= MaxRetries
          /\ call_requests = attempt
          /\ call_requests > 0 => last_response = "ungrounded"

\* a step of the loop issues one more request and either retries, on an
\* ungrounded answer, or returns, on a grounded answer or an exception; or it
\* issues none and returns None, max_retries ungrounded answers received
DetectGenreStep ==
    g_pc = "request" =>
        \/ /\ call_requests' = call_requests + 1
           /\ last_response' = "ungrounded"
           /\ g_pc' = "request"
        \/ /\ call_requests' = call_requests + 1
           /\ last_response' = "grounded"
           /\ \E text \in ResponseTexts : genre' = GroundedResult(text)
           /\ g_pc' = "returned"
        \/ /\ call_requests' = call_requests + 1
           /\ last_response' \in {"quota_error", "error"}
           /\ genre' = None
           /\ g_pc' = "returned"
        \/ /\ call_requests = MaxRetries
           /\ last_response = "ungrounded"
           /\ UNCHANGED <<call_requests, last_response>>
           /\ genre' = None
           /\ g_pc' = "returned"

\* C23: detect_genre always terminates after at most max_retries API
\* requests: it retries only when a response lacks grounding metadata,
\* returns at once on a grounded response or on any exception, and returns
\* None once max_retries ungrounded responses have been received
C23_BoundedRetries ==
    []RetriesBounded /\ [][DetectGenreStep]_vars

\* a call returned None after max_retries requests, the last one ungrounded
C23_Witness ==
    /\ g_pc = "returned"
    /\ call_requests = MaxRetries
    /\ last_response = "ungrounded"
    /\ genre = None


(***************************************************************************)
(* Properties of the detect-genres loop's writes (specification GenreSpec). *)
(***************************************************************************)

\* the stations the loop has reported without a genre
ReportedWithoutGenre ==
    {console[k][1] : k \in {j \in 1..Len(console) : console[j][2] = None}}

\* what detect_genre returns is None or a genre of at least one character;
\* in the command, a station reported without a genre and the station at
\* which the flag was set have no genre, in the connection's view and in the
\* committed table, and updated_count is the number of rows written
UnwrittenStayEmpty ==
    /\ genre = None \/ genre[1] # <<>>
    /\ caller = "cli" =>
          /\ \A c \in ReportedWithoutGenre :
                db_genre[c] = NoGenre /\ db_committed[c] = NoGenre
          /\ quota_exceeded =>
                /\ g_i <= Len(g_stations)
                /\ db_genre[CurrentStation] = NoGenre
                /\ db_committed[CurrentStation] = NoGenre
          /\ updated_count = Cardinality(ChangedRows(db_genre))

\* a genre is written only by the command, for the station detect_genre just
\* returned a genre for, with the flag clear, and counted; nothing else is
\* counted; the committed table changes only by the commit
WritesOnlyDetectedGenre ==
    /\ db_genre' # db_genre =>
          /\ caller = "cli"
          /\ g_pc = "returned"
          /\ ~quota_exceeded
          /\ genre # None
          /\ genre[1] # <<>>
          /\ db_genre[CurrentStation] = NoGenre
          /\ db_genre' = [db_genre EXCEPT ![CurrentStation] = genre[1]]
          /\ updated_count' = updated_count + 1
    /\ updated_count' # updated_count => db_genre' # db_genre
    /\ db_committed' # db_committed => db_committed' = db_genre

\* C24: in the detect-genres command a station's genre in the store is
\* changed only when detect_genre returned a non-empty genre for that station
\* while the quota flag was still false; a station for which detection
\* returned None, and the station whose request tripped the quota, keep their
\* genre unchanged (empty), and the updated count equals the number of
\* stations written
C24_OnlyDetectedGenresWritten ==
    []UnwrittenStayEmpty /\ [][WritesOnlyDetectedGenre]_vars

\* the command returned: the first station came back None and has no genre,
\* the second was written, one update counted
C24_Witness ==
    /\ caller = "cli"
    /\ g_pc = "done"
    /\ Len(g_stations) = 2
    /\ console = <<<<g_stations[1], None>>,
                   <<g_stations[2], Some(<<"U", "n", "k", "n", "o", "w", "n">>)>>>>
    /\ db_committed[g_stations[1]] = NoGenre
    /\ db_committed[g_stations[2]] = <<"U", "n", "k", "n", "o", "w", "n">>
    /\ updated_count = 1

====
